---- MODULE Spec2Model ----
(***************************************************************************)
(* Model of the concurrency bridge of derivux (MatlabBridge): a caller     *)
(* thread submitting, polling, interrupting and shutting down, and the     *)
(* persistent event loop that runs one coroutine per submitted request     *)
(* against a MatlabAgent (the backend session).                            *)
(***************************************************************************)
EXTENDS Integers, Sequences, FiniteSets, TLC

\* ---------------------------------------------------------------- bounds
MaxSubmits == 2          \* calls of start_async_message in one behaviour
MaxEvents == 2           \* content events the backend streams per query
MaxStarts == 2           \* SessionProcessor.start calls that build a client
MaxClears == 1           \* clear_conversation calls
MaxApprovals == 2        \* request_approval calls
MaxTurns == 2            \* cap of SessionProcessor._turn_count

\* ------------------------------------------------------ program constants
COMPACTION_THRESHOLD == 50
APPROVAL_POLLS == 300     \* request_approval: for _ in range(300), one poll per 100 ms

AgentNames == {"general", "git"}
Modes == {"prompt", "auto"}
EventTypes == <<"text", "image", "tool_use">>

\* Two names of ToolNames.all_tools(): a Claude Code built-in and an MCP tool.
ToolNames == {"Read", "matlab_execute"}
basic_tools == {"Read"}
PermissionState == {"allow", "ask", "deny"}
\* Agent definitions the processor is started with; set_agent_override is
\* called for OverrideAgents only, so "build" never has an override entry.
SpAgentNames == {"build", "plan"}
OverrideAgents == {"plan"}
\* Arguments of check: "" stands for agent=None, "unregistered" for a tool no
\* default was ever set for.
CheckTools == ToolNames \cup {"unregistered"}
CheckAgents == SpAgentNames \cup {""}
\* Candidate tool lists handed to get_allowed_tools.
CandidateLists == {<<>>, <<"Read">>, <<"matlab_execute", "Read">>,
                   <<"unregistered", "Read", "Read">>}
Clients == 1..MaxStarts
ApprovalIds == 1..MaxApprovals

Requests == 1..MaxSubmits
\* 0: the agent built by __init__; r: built by request r; MaxSubmits + n: built
\* by the n-th clear_conversation.
AgentIds == 0..(MaxSubmits + MaxClears)
NoTask == 0

VARIABLES
    use_sdk,              \* MatlabBridge._use_sdk
    async_response,       \* MatlabBridge._async_response
    async_chunks,         \* MatlabBridge._async_chunks
    async_content,        \* MatlabBridge._async_content
    async_complete,       \* MatlabBridge._async_complete
    interrupt_requested,  \* MatlabBridge._interrupt_requested
    current_task,         \* MatlabBridge._current_task (request id, NoTask = None)
    agent,                \* MatlabBridge._agent (agent instance id)
    agent_running,        \* MatlabBridge._agent_running
    shutdown_requested,   \* MatlabBridge._shutdown_requested
    execution_mode,       \* MatlabBridge._execution_mode
    current_routing,      \* MatlabBridge._current_routing (agent name, "none" = None)
    loop,                 \* the persistent event loop: "running", "stopping", "stopped"
    agents,               \* the MatlabAgent instances: config name, mode, client, turn count
    tasks,                \* per request: the coroutine run_with_cancel_support
    stoppers,             \* per request: interrupt_process's stop_agent coroutine
    shutdown_stop,        \* shutdown's stop_agent_with_timeout coroutine
    cli,                  \* per request: ClaudeProcessManager._async_execute thread
    caller,               \* the caller thread's position inside a facade call
    ret,                  \* what shutdown() returned ("none" before it returns)
    reset,                \* clear_conversation's _reset_agent_async coroutine, and the calls so far
    nsubmit,              \* number of start_async_message calls so far
    emitted_chunks,       \* everything appended to _async_chunks since the last reset
    emitted_content,      \* everything appended to _async_content since the last reset
    polled_chunks,        \* concatenation of poll_async_chunks results since the last reset
    polled_content,       \* concatenation of poll_async_content results since the last reset
    sp_client,            \* SessionProcessor._client (0 = None, n = the n-th client built)
    sp_current_agent,     \* SessionProcessor._current_agent ("none" = None)
    sp_session_id,        \* SessionProcessor._session_id (0 = None, n = id of session n)
    sp_turn_count,        \* SessionProcessor._turn_count
    sp_allowed,           \* allowed_tools of the options the current client was built with
    sp_raised,            \* whether the last SessionProcessor call raised
    backend,              \* per client built: "unborn", "new", "open", "closed", "broken"
    perm_defaults,        \* _PermissionRegistry._defaults ("unset" = no key)
    perm_overrides,       \* _PermissionRegistry._agent_overrides ("unset" = no key)
    auto_execute,         \* _PermissionRegistry._global_settings.auto_execute
    remembered,           \* _PermissionRegistry._remembered (the tools mapped to True)
    perm_current_agent,   \* _PermissionRegistry._current_agent
    perm_result,          \* the last call of check: tool, agent argument, returned state
    bypass_mode,          \* _PermissionRegistry._global_settings.bypass_mode
    approval_callback,    \* whether _PermissionRegistry._approval_callback is set
    pending_requests,     \* the keys of _PermissionRegistry._pending_requests
    approvals,            \* per request id: the request_approval call and its PermissionRequest
    reg_agents,           \* _AgentRegistry._agents, in insertion order
    reg_commands,         \* _AgentRegistry._commands, in insertion order
    current_primary,      \* _AgentRegistry._current_primary
    reg_result,           \* what the last call on the agent registry returned
    async_lock,           \* MatlabBridge._async_lock: the thread holding it, or "free"
    lock_code,            \* per thread: the lock and field instructions still to run
    accessed              \* the last read or write of a Pending Async Operation field

\* The bridge with its loop, the session processor, the permission registry.
bridge_vars == <<use_sdk, async_response, async_chunks, async_content, async_complete,
                 interrupt_requested, current_task, agent, agent_running,
                 shutdown_requested, execution_mode, current_routing, loop, agents, tasks,
                 stoppers, shutdown_stop, cli, caller, ret, reset, nsubmit,
                 emitted_chunks, emitted_content, polled_chunks, polled_content>>
sp_vars == <<sp_client, sp_current_agent, sp_session_id, sp_turn_count, sp_allowed,
             sp_raised, backend>>
perm_vars == <<perm_defaults, perm_overrides, auto_execute, remembered,
               perm_current_agent, perm_result, bypass_mode>>
approval_vars == <<approval_callback, pending_requests, approvals>>
registry_vars == <<reg_agents, reg_commands, current_primary, reg_result>>
lock_vars == <<async_lock, lock_code, accessed>>

vars == <<use_sdk, async_response, async_chunks, async_content, async_complete,
          interrupt_requested, current_task, agent, agent_running,
          shutdown_requested, execution_mode, current_routing, loop, agents, tasks,
          stoppers, shutdown_stop, cli, caller, ret, reset, nsubmit,
          emitted_chunks, emitted_content, polled_chunks, polled_content,
          sp_client, sp_current_agent, sp_session_id, sp_turn_count, sp_allowed,
          sp_raised, backend, perm_defaults, perm_overrides, auto_execute, remembered,
          perm_current_agent, perm_result, bypass_mode, approval_callback,
          pending_requests, approvals, reg_agents, reg_commands, current_primary,
          reg_result, async_lock, lock_code, accessed>>

\* The bridge uses neither the session processor nor the permission and agent
\* registries, and only clear_conversation touches its reset coroutine.
BridgeOnly == UNCHANGED <<sp_vars, perm_vars, approval_vars, registry_vars, lock_vars, reset>>

\* ------------------------------------------------------------- responses
\* The dict stored in _async_response; none = TRUE stands for Python's None.
Response(err, ok, intr, txt, imgs, name) ==
    [none |-> FALSE, error |-> err, success |-> ok, interrupted |-> intr,
     text |-> txt, images |-> imgs, agent_name |-> name]

NoneResponse ==
    [none |-> TRUE, error |-> "", success |-> FALSE, interrupted |-> FALSE,
     text |-> <<>>, images |-> <<>>, agent_name |-> ""]

ShuttingDownResponse == Response("Bridge is shutting down", FALSE, FALSE, <<>>, <<>>, "")
SuccessResponse(txt, imgs, name) == Response("", TRUE, FALSE, txt, imgs, name)
CancelledResponse(txt, imgs, name) == Response("Cancelled by user", FALSE, TRUE, txt, imgs, name)
ErrorResponse(name) == Response("str(e)", FALSE, FALSE, <<>>, <<>>, name)
UnexpectedResponse(name) ==
    Response("Unexpected error during agent execution", FALSE, FALSE, <<>>, <<>>, name)
InterruptedResponse == Response("Interrupted by user", FALSE, TRUE, <<>>, <<>>, "")
ShutdownResponse == Response("Shutdown requested", FALSE, FALSE, <<>>, <<>>, "")

\* ---------------------------------------------------------------- events
\* A content dict yielded by MatlabAgent.query: the seq-th event of request req.
Event(ty, r, k) == [type |-> ty, req |-> r, seq |-> k]

\* The backend's script: the type of the k-th event it streams for request r.
EventType(r, k) == EventTypes[((r + k) % Len(EventTypes)) + 1]

\* The text chunk the bridge derives from a content dict (tool use is rendered
\* as "[Using tool: name]"); images give no chunk.
ChunkOf(e) ==
    IF e.type = "text" THEN <<[text |-> "text", req |-> e.req, seq |-> e.seq]>>
    ELSE IF e.type = "tool_use" THEN <<[text |-> "[Using tool]", req |-> e.req, seq |-> e.seq]>>
    ELSE <<>>

ImageOf(e) == IF e.type = "image" THEN <<[source |-> "image", req |-> e.req, seq |-> e.seq]>> ELSE <<>>

\* ---------------------------------------------------------- agent objects
\* A MatlabAgent (claudecode/agent.py, the class the bridge imports): client is "none" (self.client is None), "new" (constructed,
\* __aenter__ not finished) or "open" (__aenter__ returned, __aexit__ not yet).
NewAgent(cfg, m) == [cfg |-> cfg, mode |-> m, client |-> "none", turns |-> 0]
NoAgent == [cfg |-> "unborn", mode |-> "prompt", client |-> "none", turns |-> 0]

\* A request id no request_approval call has taken yet; PermissionRequest's
\* approved is "none" (None), "true" or "false".
NoApproval == [pc |-> "unborn", tool |-> "", approved |-> "none", remember |-> FALSE,
               polls |-> 0, result |-> FALSE]

\* An AgentDefinition (config/markdown.py) as far as the registry reads it;
\* permissions maps a tool to a state, "unset" where the dict has no key.
NoPermissions == [t \in ToolNames |-> "unset"]
Definition(name, mode, command, permissions) ==
    [name |-> name, mode |-> mode, command |-> command, permissions |-> permissions]
\* Python's None where an AgentDefinition is expected.
NoDefinition == Definition("", "", "", NoPermissions)

\* No call on the agent registry has returned yet. A result names the call
\* (op), its argument (name or message) and what it returned: ok for switch,
\* name for toggle_primary, agent, kind and cleaned for route.
NoResult == [op |-> "none", ok |-> FALSE, name |-> "", message |-> <<>>,
             agent |-> NoDefinition, kind |-> "", cleaned |-> <<>>]

\* The threads that touch the Pending Async Operation: the caller's, and the
\* background context (the loop's thread, or the CLI reader's).
LockThreads == {"caller", "background"}

\* No field of the Pending Async Operation has been read or written yet.
NoAccess == [thread |-> "none", field |-> "none", kind |-> "none", line |-> 0,
             locked |-> TRUE]

IdleTask == [pc |-> "none", name |-> "none", ag |-> 0, k |-> 0, text_parts |-> <<>>,
             images |-> <<>>, cancel |-> FALSE, onloop |-> TRUE]

\* The accessors of the facade.
is_async_complete == async_complete
get_async_response == async_response

\* ------------------------------------------------------------------ Init
\* MatlabBridge.__init__ in SDK mode (agent 0 built, loop started) or CLI mode.
InitFresh ==
    /\ use_sdk \in BOOLEAN
    /\ async_response = NoneResponse
    /\ async_complete = FALSE
    /\ agent_running = FALSE
    /\ current_routing = "none"
    /\ agents = [a \in AgentIds |->
                    IF a = 0 /\ use_sdk THEN NewAgent("none", "prompt") ELSE NoAgent]
    /\ loop = IF use_sdk THEN "running" ELSE "none"

\* The bridge after COMPACTION_THRESHOLD - 1 successful requests to one agent:
\* the session is open, the last request is complete, nothing is in flight.
InitWarm ==
    /\ use_sdk = TRUE
    /\ async_response = SuccessResponse(<<>>, <<>>, "general")
    /\ async_complete = TRUE
    /\ agent_running = TRUE
    /\ current_routing = "general"
    /\ agents = [a \in AgentIds |->
                    IF a = 0
                    THEN [cfg |-> "general", mode |-> "prompt", client |-> "open",
                          turns |-> COMPACTION_THRESHOLD - 1]
                    ELSE NoAgent]
    /\ loop = "running"

\* SessionProcessor.__init__.
InitProcessor ==
    /\ sp_client = 0
    /\ sp_current_agent = "none"
    /\ sp_session_id = 0
    /\ sp_turn_count = 0
    /\ sp_allowed = {}
    /\ sp_raised = FALSE
    /\ backend = [n \in Clients |-> "unborn"]

\* _PermissionRegistry._initialize.
InitPermission ==
    /\ perm_defaults = [t \in ToolNames |-> "unset"]
    /\ perm_overrides = [a \in OverrideAgents |-> [t \in ToolNames |-> "unset"]]
    /\ auto_execute = FALSE
    /\ remembered = {}
    /\ perm_current_agent = ""
    /\ perm_result = [tool |-> "", agent |-> "", state |-> "none"]
    /\ bypass_mode = FALSE
    /\ approval_callback = FALSE
    /\ pending_requests = {}
    /\ approvals = [i \in ApprovalIds |-> NoApproval]

\* _AgentRegistry._initialize.
InitRegistry ==
    /\ reg_agents = <<>>
    /\ reg_commands = <<>>
    /\ current_primary = "build"
    /\ reg_result = NoResult

\* threading.Lock() at construction: free, no thread inside a method.
InitLock ==
    /\ async_lock = "free"
    /\ lock_code = [th \in LockThreads |-> <<>>]
    /\ accessed = NoAccess

Init ==
    /\ InitFresh \/ InitWarm
    /\ async_chunks = <<>>
    /\ async_content = <<>>
    /\ interrupt_requested = FALSE
    /\ current_task = NoTask
    /\ agent = 0
    /\ shutdown_requested = FALSE
    /\ execution_mode = "prompt"
    /\ tasks = [r \in Requests |-> IdleTask]
    /\ stoppers = [i \in 0..MaxSubmits |-> [pc |-> "none", target |-> 0]]
    /\ shutdown_stop = [pc |-> "none", target |-> 0]
    /\ cli = [r \in Requests |-> [pc |-> "none", k |-> 0]]
    /\ caller = "idle"
    /\ ret = "none"
    /\ reset = [pc |-> "none", target |-> 0, n |-> 0]
    /\ nsubmit = 0
    /\ emitted_chunks = <<>>
    /\ emitted_content = <<>>
    /\ polled_chunks = <<>>
    /\ polled_content = <<>>
    /\ InitProcessor
    /\ InitPermission
    /\ InitRegistry
    /\ InitLock

\* loop.is_running(): true until the loop has processed loop.stop.
LoopIsRunning == loop \in {"running", "stopping"}

\* The caller starts a request only after the previous one was seen complete
\* (the surrounding API's duty); the first request needs nothing.
CallerMaySubmit == nsubmit = 0 \/ async_complete

\* ------------------------------------------------- caller: submit and poll
\* The shutdown guard fired: the request is completed with an error at once and
\* nothing is routed or started.
RejectSubmit ==
    /\ async_response' = ShuttingDownResponse
    /\ async_complete' = TRUE
    /\ UNCHANGED <<async_chunks, async_content, interrupt_requested,
                   current_routing, tasks, cli, emitted_chunks, emitted_content,
                   polled_chunks, polled_content>>

\* The pending operation is reset, the message is routed, and the background
\* work is started: a coroutine for the loop (SDK) or the CLI thread.
AcceptSubmit(name) ==
    /\ async_response' = NoneResponse
    /\ async_chunks' = <<>>
    /\ async_content' = <<>>
    /\ async_complete' = FALSE
    /\ interrupt_requested' = FALSE
    /\ emitted_chunks' = <<>>
    /\ emitted_content' = <<>>
    /\ polled_chunks' = <<>>
    /\ polled_content' = <<>>
    /\ IF use_sdk
       THEN /\ current_routing' = name
            /\ tasks' = [tasks EXCEPT ![nsubmit + 1] =
                            [IdleTask EXCEPT !.pc = "sched", !.name = name]]
            /\ UNCHANGED cli
       ELSE /\ cli' = [cli EXCEPT ![nsubmit + 1] = [pc |-> "running", k |-> 0]]
            /\ UNCHANGED <<current_routing, tasks>>

\* start_async_message without its shutdown guard.
start_async_message_unguarded(name) ==
    /\ caller = "idle"
    /\ nsubmit < MaxSubmits
    /\ CallerMaySubmit
    /\ nsubmit' = nsubmit + 1
    /\ AcceptSubmit(name)
    /\ UNCHANGED <<use_sdk, current_task, agent, agent_running, shutdown_requested,
                   execution_mode, loop, agents, stoppers, shutdown_stop, caller, ret>>
    /\ BridgeOnly

start_async_message(name) ==
    /\ caller = "idle"
    /\ nsubmit < MaxSubmits
    /\ CallerMaySubmit
    /\ nsubmit' = nsubmit + 1
    /\ IF shutdown_requested THEN RejectSubmit ELSE AcceptSubmit(name)
    /\ UNCHANGED <<use_sdk, current_task, agent, agent_running, shutdown_requested,
                   execution_mode, loop, agents, stoppers, shutdown_stop, caller, ret>>
    /\ BridgeOnly

poll_async_chunks ==
    /\ caller = "idle"
    /\ polled_chunks' = polled_chunks \o async_chunks
    /\ async_chunks' = <<>>
    /\ BridgeOnly
    /\ UNCHANGED <<ret, use_sdk, async_response, async_content, async_complete,
                   interrupt_requested, current_task, agent, agent_running,
                   shutdown_requested, execution_mode, current_routing, loop, agents,
                   tasks, stoppers, shutdown_stop, cli, caller, nsubmit,
                   emitted_chunks, emitted_content, polled_content>>

\* poll_async_content returning the buffer without emptying it.
poll_async_content_keeping ==
    /\ caller = "idle"
    /\ polled_content' = polled_content \o async_content
    /\ BridgeOnly
    /\ UNCHANGED <<ret, use_sdk, async_response, async_chunks, async_content,
                   async_complete, interrupt_requested, current_task, agent,
                   agent_running, shutdown_requested, execution_mode, current_routing,
                   loop, agents, tasks, stoppers, shutdown_stop, cli, caller, nsubmit,
                   emitted_chunks, emitted_content, polled_chunks>>

\* The buffer is copied and emptied under the lock. The images of the direct
\* image queue (module image_queue) that the call appends to its return value
\* never pass through the buffer and are left out.
poll_async_content ==
    /\ caller = "idle"
    /\ polled_content' = polled_content \o async_content
    /\ async_content' = <<>>
    /\ BridgeOnly
    /\ UNCHANGED <<ret, use_sdk, async_response, async_chunks, async_complete,
                   interrupt_requested, current_task, agent, agent_running,
                   shutdown_requested, execution_mode, current_routing, loop, agents,
                   tasks, stoppers, shutdown_stop, cli, caller, nsubmit,
                   emitted_chunks, emitted_content, polled_chunks>>

set_execution_mode(m) ==
    /\ caller = "idle"
    /\ m /= execution_mode
    /\ execution_mode' = m
    /\ BridgeOnly
    /\ UNCHANGED <<ret, use_sdk, async_response, async_chunks, async_content, async_complete,
                   interrupt_requested, current_task, agent, agent_running,
                   shutdown_requested, current_routing, loop, agents, tasks, stoppers,
                   shutdown_stop, cli, caller, nsubmit, emitted_chunks, emitted_content,
                   polled_chunks, polled_content>>

\* --------------------------------------------------- the request coroutine
\* What a step of a request coroutine never touches.
TaskFrame ==
    UNCHANGED <<sp_vars, perm_vars, approval_vars, registry_vars, lock_vars, reset, use_sdk, interrupt_requested, shutdown_requested, execution_mode,
                current_routing, loop, stoppers, shutdown_stop, cli, caller, ret,
                nsubmit, polled_chunks, polled_content>>

\* A coroutine scheduled on the persistent loop runs only while the loop does;
\* one run by asyncio.run in its own thread (loop gone at submission) always can.
CanStep(r) == tasks[r].onloop => LoopIsRunning

Mark(resp) == async_response' = resp /\ async_complete' = TRUE
NoMark == UNCHANGED <<async_response, async_complete>>
NoAppend == UNCHANGED <<async_chunks, async_content, emitted_chunks, emitted_content>>

\* The coroutine ends: run_with_cancel_support's finally clears _current_task.
Done(r) ==
    /\ tasks' = [tasks EXCEPT ![r] = [IdleTask EXCEPT !.pc = "done"]]
    /\ current_task' = NoTask

\* The coroutine suspends at its next await; its first slice has stored the
\* task in _current_task.
Goto(r, pc, ag) ==
    /\ tasks' = [tasks EXCEPT ![r].pc = pc, ![r].ag = ag,
                               ![r].onloop = IF tasks[r].pc = "sched" THEN LoopIsRunning ELSE @]
    /\ current_task' = IF tasks[r].pc = "sched" THEN r ELSE current_task

\* agent.query(full_prompt) is entered: it raises at once without a client.
QueryBegin(r, ag, ags) ==
    /\ agents' = ags
    /\ IF ags[ag].client = "none"
       THEN Mark(ErrorResponse(tasks[r].name)) /\ Done(r)
       ELSE NoMark /\ Goto(r, "query", ag)

\* run() from its try block on, with the local agent ag: start it unless the
\* bridge believes a session is running, then query.
AfterBind(r, ag, ags, running) ==
    /\ agent_running' = running
    /\ IF ~running
       THEN \/ /\ agents' = ags      \* start() fails before the client exists
               /\ Mark(ErrorResponse(tasks[r].name))
               /\ Done(r)
            \/ /\ agents' = [ags EXCEPT ![ag].client = "new"]
               /\ NoMark
               /\ Goto(r, "starting", ag)
       ELSE QueryBegin(r, ag, ags)

\* _run_sdk_async hands the coroutine to the running loop, or runs it itself
\* with asyncio.run when the loop is gone. The coroutine's first slice: bind the
\* routed agent, stopping the bound one when the configuration or the execution
\* mode differs.
TaskBegin(r) ==
    /\ tasks[r].pc = "sched"
    /\ NoAppend
    /\ TaskFrame
    /\ LET name == tasks[r].name
           mode_changed == agents[agent].mode /= execution_mode
           fresh == [agents EXCEPT ![r] = NewAgent(name, execution_mode)]
       IN IF agents[agent].cfg /= name \/ mode_changed
          THEN IF agent_running /\ agents[agent].client /= "none"
               THEN /\ Goto(r, "switch_stop", agent)
                    /\ UNCHANGED <<agent, agent_running, agents>>
                    /\ NoMark
               ELSE /\ agent' = r
                    /\ AfterBind(r, r, fresh, FALSE)
          ELSE /\ UNCHANGED agent
               /\ AfterBind(r, agent, agents, agent_running)

\* loop.call_soon_threadsafe(task.cancel) was called: the loop runs it before
\* or after the task's next resumption, so a resumption may or may not see
\* CancelledError.
CancelPending(r) == tasks[r].cancel

\* await self._agent.stop() of the agent switch returns, raises or is cancelled;
\* it sits before run()'s try block, so what it raises leaves run().
TaskSwitchStopped(r) ==
    /\ tasks[r].pc = "switch_stop"
    /\ CanStep(r)
    /\ NoAppend
    /\ TaskFrame
    /\ \/ /\ Done(r)                       \* CancelledError, or __aexit__ raised
          /\ NoMark
          /\ UNCHANGED <<agent, agent_running, agents>>
       \/ /\ agent' = r
          /\ AfterBind(r, r,
                [agents EXCEPT ![tasks[r].ag].client = "none",
                               ![r] = NewAgent(tasks[r].name, execution_mode)],
                FALSE)

\* The handlers at the end of run(): except CancelledError, except Exception.
OnCancelled(r) ==
    /\ CancelPending(r)
    /\ Mark(CancelledResponse(tasks[r].text_parts, tasks[r].images, tasks[r].name))
    /\ Done(r)

OnError(r) ==
    /\ Mark(ErrorResponse(tasks[r].name))
    /\ Done(r)

\* The finally block of run(): the safety net writes only when nothing else did.
SafetyNet(r) ==
    IF async_complete THEN NoMark ELSE Mark(UnexpectedResponse(tasks[r].name))

\* await agent.start() returns, raises or is cancelled. A cancellation reaches
\* the CancelledError handler before text_parts and images are bound: the
\* handler itself raises and only the finally block runs.
TaskStarted(r) ==
    /\ tasks[r].pc = "starting"
    /\ CanStep(r)
    /\ NoAppend
    /\ TaskFrame
    /\ UNCHANGED agent
    /\ \/ /\ CancelPending(r)
          /\ SafetyNet(r)
          /\ Done(r)
          /\ UNCHANGED <<agent_running, agents>>
       \/ /\ OnError(r)
          /\ UNCHANGED <<agent_running, agents>>
       \/ /\ agent_running' = TRUE
          /\ QueryBegin(r, tasks[r].ag, [agents EXCEPT ![tasks[r].ag].client = "open"])

\* The code after the streaming loop: store the success result, count the turn,
\* and compact when the threshold is reached (compact_conversation returns at
\* once without a client).
Finalize(r) ==
    LET ag == tasks[r].ag
        turns == agents[ag].turns + 1
    IN /\ Mark(SuccessResponse(tasks[r].text_parts, tasks[r].images, tasks[r].name))
       /\ agents' = [agents EXCEPT ![ag].turns = turns]
       /\ IF turns >= COMPACTION_THRESHOLD /\ agents[ag].client /= "none"
          THEN Goto(r, "compact_query", ag)
          ELSE Done(r)

\* The streaming loop was left by its break: the same slice of the coroutine
\* goes on to the code after the loop, which waits only for the lock.
TaskBroke(r) ==
    /\ tasks[r].pc = "broke"
    /\ TaskFrame
    /\ UNCHANGED <<agent, agent_running>>
    /\ Finalize(r)
    /\ NoAppend

\* The backend yields the next content dict: break when the interrupt flag
\* (read outside the lock) is up, else append it to both buffers.
OnContent(r) ==
    /\ tasks[r].k < MaxEvents
    /\ LET e == Event(EventType(r, tasks[r].k + 1), r, tasks[r].k + 1)
       IN IF interrupt_requested
          THEN /\ tasks' = [tasks EXCEPT ![r].pc = "broke"]
               /\ NoMark /\ NoAppend
               /\ UNCHANGED <<current_task, agents>>
          ELSE /\ async_content' = Append(async_content, e)
               /\ async_chunks' = async_chunks \o ChunkOf(e)
               /\ emitted_content' = Append(emitted_content, e)
               /\ emitted_chunks' = emitted_chunks \o ChunkOf(e)
               /\ tasks' = [tasks EXCEPT ![r].k = @ + 1,
                                         ![r].text_parts = @ \o ChunkOf(e),
                                         ![r].images = @ \o ImageOf(e)]
               /\ NoMark
               /\ UNCHANGED <<current_task, agents>>

\* TaskStream with an error handler that stops the agent.
TaskStream_stopping_on_error(r) ==
    /\ tasks[r].pc = "query"
    /\ CanStep(r)
    /\ TaskFrame
    /\ UNCHANGED agent
    /\ \/ /\ OnError(r)
          /\ NoAppend
          /\ agents' = [agents EXCEPT ![tasks[r].ag].client = "none"]
          /\ agent_running' = FALSE
       \/ /\ UNCHANGED agent_running
          /\ \/ OnCancelled(r) /\ NoAppend /\ UNCHANGED agents
             \/ Finalize(r) /\ NoAppend
             \/ OnContent(r)

\* One resumption of `async for content in agent.query(...)`.
TaskStream(r) ==
    /\ tasks[r].pc = "query"
    /\ CanStep(r)
    /\ TaskFrame
    /\ UNCHANGED <<agent, agent_running>>
    /\ \/ OnCancelled(r) /\ NoAppend /\ UNCHANGED agents
       \/ OnError(r) /\ NoAppend /\ UNCHANGED agents         \* the backend raised
       \/ Finalize(r) /\ NoAppend                            \* the stream ended
       \/ OnContent(r)

\* ------------------------------------------- compact_conversation, in run()
\* compact_conversation once self.stop() has returned: the client is gone, the
\* turn count is reset, and self.start() fails early or awaits __aenter__.
CompactRestart(r) ==
    \/ /\ agents' = [agents EXCEPT ![tasks[r].ag].client = "none",
                                   ![tasks[r].ag].turns = 0]
       /\ Done(r)
    \/ /\ agents' = [agents EXCEPT ![tasks[r].ag].client = "new",
                                   ![tasks[r].ag].turns = 0]
       /\ Goto(r, "compact_start", tasks[r].ag)

\* compact_conversation without its `except Exception: pass`: what the summary
\* query raises reaches run()'s handler.
TaskCompactQuery_raising(r) ==
    /\ tasks[r].pc = "compact_query"
    /\ CanStep(r)
    /\ NoAppend
    /\ TaskFrame
    /\ UNCHANGED <<agent, agent_running>>
    /\ \/ OnCancelled(r) /\ UNCHANGED agents
       \/ OnError(r) /\ UNCHANGED agents
       \/ /\ NoMark
          /\ IF agents[tasks[r].ag].client = "none"
             THEN CompactRestart(r)
             ELSE Goto(r, "compact_stop", tasks[r].ag) /\ UNCHANGED agents

\* The summary query returns (then self.stop() is awaited), raises (swallowed
\* by `except Exception`), or is cancelled (CancelledError is not swallowed and
\* reaches run()'s handler).
TaskCompactQuery(r) ==
    /\ tasks[r].pc = "compact_query"
    /\ CanStep(r)
    /\ NoAppend
    /\ TaskFrame
    /\ UNCHANGED <<agent, agent_running>>
    /\ \/ OnCancelled(r) /\ UNCHANGED agents
       \/ Done(r) /\ NoMark /\ UNCHANGED agents
       \/ /\ NoMark
          /\ IF agents[tasks[r].ag].client = "none"
             THEN CompactRestart(r)
             ELSE Goto(r, "compact_stop", tasks[r].ag) /\ UNCHANGED agents

\* self.stop() inside compact_conversation returns, raises or is cancelled;
\* on return the turn count is reset and self.start() begins.
TaskCompactStop(r) ==
    /\ tasks[r].pc = "compact_stop"
    /\ CanStep(r)
    /\ NoAppend
    /\ TaskFrame
    /\ UNCHANGED <<agent, agent_running>>
    /\ \/ OnCancelled(r) /\ UNCHANGED agents
       \/ Done(r) /\ NoMark /\ UNCHANGED agents
       \/ NoMark /\ CompactRestart(r)

\* self.start() inside compact_conversation returns, raises or is cancelled.
TaskCompactStart(r) ==
    /\ tasks[r].pc = "compact_start"
    /\ CanStep(r)
    /\ NoAppend
    /\ TaskFrame
    /\ UNCHANGED <<agent, agent_running>>
    /\ \/ OnCancelled(r) /\ UNCHANGED agents
       \/ Done(r) /\ NoMark /\ UNCHANGED agents
       \/ /\ NoMark
          /\ agents' = [agents EXCEPT ![tasks[r].ag].client = "open"]
          /\ Done(r)

\* ------------------------------------------- the CLI fallback (no SDK)
CliFrame ==
    UNCHANGED <<sp_vars, perm_vars, approval_vars, registry_vars, lock_vars, reset, use_sdk, interrupt_requested, current_task, agent, agent_running,
                shutdown_requested, execution_mode, current_routing, loop, agents,
                tasks, stoppers, shutdown_stop, caller, ret, nsubmit, async_content,
                emitted_content, polled_chunks, polled_content>>

\* _async_execute read a line with text: on_chunk appends it.
CliChunk(r) ==
    /\ cli[r].pc = "running"
    /\ cli[r].k < MaxEvents
    /\ LET c == [text |-> "text", req |-> r, seq |-> cli[r].k + 1]
       IN /\ async_chunks' = Append(async_chunks, c)
          /\ emitted_chunks' = Append(emitted_chunks, c)
    /\ cli' = [cli EXCEPT ![r].k = @ + 1]
    /\ NoMark
    /\ CliFrame

\* _async_execute reached its end (process exit, kill, or an exception):
\* on_complete stores the response.
CliComplete(r) ==
    /\ cli[r].pc = "running"
    /\ \E ok \in BOOLEAN :
          Mark(Response(IF ok THEN "" ELSE "str(e)", ok, FALSE,
                        [i \in 1..cli[r].k |-> [text |-> "text", req |-> r, seq |-> i]],
                        <<>>, ""))
    /\ cli' = [cli EXCEPT ![r] = [pc |-> "done", k |-> 0]]
    /\ UNCHANGED <<async_chunks, emitted_chunks>>
    /\ CliFrame

\* ------------------------------------------------- caller: interrupt_process
CallerFrame ==
    UNCHANGED <<sp_vars, perm_vars, approval_vars, registry_vars, lock_vars, reset, use_sdk, execution_mode, current_routing, agents, cli, nsubmit,
                async_chunks, async_content, emitted_chunks, emitted_content,
                polled_chunks, polled_content, agent>>

\* tasks after `loop.call_soon_threadsafe(self._current_task.cancel)`, which is
\* called when a task is stored, is not done, and the loop runs.
RequestCancel ==
    IF current_task /= NoTask /\ tasks[current_task].pc /= "done" /\ LoopIsRunning
    THEN [tasks EXCEPT ![current_task].cancel = TRUE]
    ELSE tasks

\* The locked section and the cancellation request. With the completion flag
\* set there is nothing to stop: interrupt_process returns False and changes
\* nothing. Else it raises the interrupt flag, stores the interrupted result,
\* requests cancellation of the stored task and sleeps; this path ends in
\* `return True`.
InterruptBegin ==
    /\ caller = "idle"
    /\ IF async_complete
       THEN UNCHANGED <<async_response, async_complete, interrupt_requested, caller,
                       tasks>>
       ELSE /\ interrupt_requested' = TRUE
            /\ Mark(InterruptedResponse)
            /\ tasks' = RequestCancel
            /\ caller' = "interrupt_stop"
    /\ UNCHANGED <<current_task, agent_running, shutdown_requested, loop, stoppers,
                   shutdown_stop, ret>>
    /\ CallerFrame

\* The end of interrupt_process: stop the CLI process, lower the flag, return True.
InterruptReturn ==
    /\ interrupt_requested' = FALSE
    /\ caller' = "idle"

\* After the sleep: stop the agent through the loop when the bridge believes a
\* session runs, and wait for it; else return.
InterruptStop ==
    /\ caller = "interrupt_stop"
    /\ IF use_sdk /\ agent_running /\ LoopIsRunning
       THEN /\ stoppers' = [stoppers EXCEPT ![nsubmit] = [pc |-> "sched", target |-> 0]]
            /\ caller' = "interrupt_wait"
            /\ UNCHANGED interrupt_requested
       ELSE /\ InterruptReturn
            /\ UNCHANGED stoppers
    /\ UNCHANGED <<async_response, async_complete, current_task, agent_running,
                   shutdown_requested, loop, tasks, shutdown_stop, ret>>
    /\ CallerFrame

\* future.result(timeout=2.0) returns: stop_agent finished, or the wait timed out.
InterruptWaited ==
    /\ caller = "interrupt_wait"
    /\ InterruptReturn
    /\ UNCHANGED <<async_response, async_complete, current_task, agent_running,
                   shutdown_requested, loop, tasks, stoppers, shutdown_stop, ret>>
    /\ CallerFrame

\* interrupt_process's stop_agent coroutine on the loop.
StopperFrame ==
    UNCHANGED <<sp_vars, perm_vars, approval_vars, registry_vars, lock_vars, reset, use_sdk, async_response, async_chunks, async_content, async_complete,
                interrupt_requested, current_task, agent, shutdown_requested,
                execution_mode, current_routing, loop, tasks, cli, caller, ret, nsubmit,
                emitted_chunks, emitted_content, polled_chunks, polled_content>>

NoStopper == [pc |-> "none", target |-> 0]

\* First slice: self._agent.stop() returns at once without a client, else awaits.
StopperRun(i) ==
    /\ stoppers[i].pc = "sched"
    /\ LoopIsRunning
    /\ IF agents[agent].client = "none"
       THEN /\ stoppers' = [stoppers EXCEPT ![i] = NoStopper]
            /\ agent_running' = FALSE
       ELSE /\ stoppers' = [stoppers EXCEPT ![i] = [pc |-> "stopping", target |-> agent]]
            /\ UNCHANGED agent_running
    /\ UNCHANGED <<agents, shutdown_stop>>
    /\ StopperFrame

\* __aexit__ returned (client released) or raised (swallowed, client kept);
\* the finally block clears _agent_running.
StopperFinish(i) ==
    /\ stoppers[i].pc = "stopping"
    /\ LoopIsRunning
    /\ \/ agents' = [agents EXCEPT ![stoppers[i].target].client = "none"]
       \/ UNCHANGED agents
    /\ agent_running' = FALSE
    /\ stoppers' = [stoppers EXCEPT ![i] = NoStopper]
    /\ UNCHANGED shutdown_stop
    /\ StopperFrame

\* ---------------------------------------------------------- caller: shutdown
\* shutdown() up to its first wait: raise the flag, complete what is pending; in
\* CLI mode stop_process and return True; in SDK mode _shutdown_event_loop
\* returns True without a running loop, else stops the agent through the loop or
\* goes on to stop the loop. The caller shuts a bridge down once.
ShutdownBegin ==
    /\ caller = "idle"
    /\ ~shutdown_requested
    /\ shutdown_requested' = TRUE
    /\ IF async_complete THEN NoMark ELSE Mark(ShutdownResponse)
    /\ IF ~use_sdk \/ ~LoopIsRunning
       THEN /\ caller' = "idle"
            /\ ret' = "True"
            /\ UNCHANGED <<shutdown_stop, loop>>
       ELSE IF agent_running
            THEN /\ shutdown_stop' = [pc |-> "sched", target |-> 0]
                 /\ caller' = "shutdown_wait"
                 /\ UNCHANGED <<loop, ret>>
            ELSE /\ loop' = "stopping"
                 /\ caller' = "shutdown_join"
                 /\ UNCHANGED <<shutdown_stop, ret>>
    /\ UNCHANGED <<interrupt_requested, current_task, agent_running, tasks, stoppers>>
    /\ CallerFrame

\* future.result(timeout * 0.7) returned or timed out; either way the flag is
\* cleared and loop.stop is scheduled.
ShutdownWaited ==
    /\ caller = "shutdown_wait"
    /\ agent_running' = FALSE
    /\ loop' = "stopping"
    /\ caller' = "shutdown_join"
    /\ UNCHANGED <<async_response, async_complete, interrupt_requested, current_task,
                   shutdown_requested, tasks, stoppers, shutdown_stop, ret>>
    /\ CallerFrame

\* join(timeout * 0.3) returned: True when the loop thread has ended, False
\* when it is still alive.
ShutdownJoin ==
    /\ caller = "shutdown_join"
    /\ caller' = "idle"
    /\ ret' = IF loop = "stopped" THEN "True" ELSE "False"
    /\ UNCHANGED <<async_response, async_complete, interrupt_requested, current_task,
                   agent_running, shutdown_requested, loop, tasks, stoppers,
                   shutdown_stop>>
    /\ CallerFrame

\* The loop processes loop.stop: run_forever returns and the thread ends.
LoopStop ==
    /\ loop = "stopping"
    /\ loop' = "stopped"
    /\ BridgeOnly
    /\ UNCHANGED <<use_sdk, async_response, async_chunks, async_content, async_complete,
                   interrupt_requested, current_task, agent, agent_running,
                   shutdown_requested, execution_mode, current_routing, agents, tasks,
                   stoppers, shutdown_stop, cli, caller, ret, nsubmit, emitted_chunks,
                   emitted_content, polled_chunks, polled_content>>

\* shutdown's stop_agent_with_timeout coroutine: first slice.
ShutdownStopRun ==
    /\ shutdown_stop.pc = "sched"
    /\ LoopIsRunning
    /\ shutdown_stop' = IF agents[agent].client = "none"
                        THEN [pc |-> "stopped", target |-> 0]
                        ELSE [pc |-> "stopping", target |-> agent]
    /\ UNCHANGED <<agents, agent_running, stoppers>>
    /\ StopperFrame

\* wait_for(self._agent.stop(), timeout * 0.6) ends: the client was released,
\* or the wait timed out or __aexit__ raised (both swallowed, client kept).
ShutdownStopFinish ==
    /\ shutdown_stop.pc = "stopping"
    /\ LoopIsRunning
    /\ \/ /\ agents' = [agents EXCEPT ![shutdown_stop.target].client = "none"]
          /\ shutdown_stop' = [pc |-> "stopped", target |-> 0]
       \/ /\ UNCHANGED agents
          /\ shutdown_stop' = [pc |-> "failed", target |-> 0]
    /\ UNCHANGED <<agent_running, stoppers>>
    /\ StopperFrame

\* ------------------------------------------------ caller: clear_conversation
ClearFrame ==
    UNCHANGED <<sp_vars, perm_vars, approval_vars, registry_vars, lock_vars, use_sdk, async_response,
                async_chunks, async_content,
                async_complete, interrupt_requested, current_task, shutdown_requested,
                execution_mode, loop, tasks, stoppers, shutdown_stop, cli, ret, nsubmit,
                emitted_chunks, emitted_content, polled_chunks, polled_content>>

\* _reset_agent_async past its stop: self._agent = MatlabAgent(model, mode),
\* the instance built by the n-th clear_conversation.
ResetRebind(ags, n) ==
    /\ agents' = [ags EXCEPT ![MaxSubmits + n] = NewAgent("none", execution_mode)]
    /\ agent' = MaxSubmits + n
    /\ agent_running' = FALSE

\* clear_conversation up to its wait: the routing is forgotten; in SDK mode the
\* reset coroutine is handed to the running loop and awaited for at most 10 s,
\* or run to its end by asyncio.run when the loop is gone (what agent.stop()
\* raises then leaves clear_conversation).
ClearBegin ==
    /\ caller = "idle"
    /\ reset.n < MaxClears
    /\ current_routing' = "none"
    /\ IF ~use_sdk
       THEN /\ reset' = [reset EXCEPT !.n = @ + 1]
            /\ UNCHANGED <<caller, agents, agent, agent_running>>
       ELSE IF LoopIsRunning
       THEN /\ reset' = [pc |-> "sched", target |-> 0, n |-> reset.n + 1]
            /\ caller' = "clear_wait"
            /\ UNCHANGED <<agents, agent, agent_running>>
       ELSE /\ reset' = [reset EXCEPT !.n = @ + 1]
            /\ UNCHANGED caller
            /\ IF agent_running /\ agents[agent].client /= "none"
               THEN \/ UNCHANGED <<agents, agent, agent_running>>
                    \/ ResetRebind([agents EXCEPT ![agent].client = "none"], reset.n + 1)
               ELSE ResetRebind(agents, reset.n + 1)
    /\ ClearFrame

\* future.result(timeout=10) returns, raises or times out; all are swallowed.
ClearWaited ==
    /\ caller = "clear_wait"
    /\ caller' = "idle"
    /\ UNCHANGED <<reset, current_routing, agents, agent, agent_running>>
    /\ ClearFrame

\* _reset_agent_async, first slice: with a session believed running,
\* self._agent.stop() returns at once without a client, else awaits __aexit__;
\* without one the fresh agent is bound at once.
ResetRun ==
    /\ reset.pc = "sched"
    /\ LoopIsRunning
    /\ IF agent_running /\ agents[agent].client /= "none"
       THEN /\ reset' = [reset EXCEPT !.pc = "stopping", !.target = agent]
            /\ UNCHANGED <<agents, agent, agent_running>>
       ELSE /\ reset' = [reset EXCEPT !.pc = "none"]
            /\ ResetRebind(agents, reset.n)
    /\ UNCHANGED <<caller, current_routing>>
    /\ ClearFrame

\* __aexit__ returned: the client is released and the fresh agent bound; or it
\* raised: the coroutine ends there and the bound agent stays.
ResetFinish ==
    /\ reset.pc = "stopping"
    /\ LoopIsRunning
    /\ \/ ResetRebind([agents EXCEPT ![reset.target].client = "none"], reset.n)
       \/ UNCHANGED <<agents, agent, agent_running>>
    /\ reset' = [reset EXCEPT !.pc = "none", !.target = 0]
    /\ UNCHANGED <<caller, current_routing>>
    /\ ClearFrame

\* ------------------------------------------------- the permission registry
\* What the setters and queries of the cascade leave alone.
PermFrame == UNCHANGED <<bridge_vars, sp_vars, approval_vars, registry_vars, lock_vars, bypass_mode>>

set_default(tool_name, state) ==
    /\ perm_defaults' = [perm_defaults EXCEPT ![tool_name] = state]
    /\ UNCHANGED <<perm_overrides, auto_execute, remembered, perm_current_agent,
                   perm_result>>
    /\ PermFrame

set_agent_override(agent_name, tool_name, state) ==
    /\ perm_overrides' = [perm_overrides EXCEPT ![agent_name][tool_name] = state]
    /\ UNCHANGED <<perm_defaults, auto_execute, remembered, perm_current_agent,
                   perm_result>>
    /\ PermFrame

set_auto_execute(enabled) ==
    /\ auto_execute' = enabled
    /\ UNCHANGED <<perm_defaults, perm_overrides, remembered, perm_current_agent,
                   perm_result>>
    /\ PermFrame

set_current_agent(agent_name) ==
    /\ perm_current_agent' = agent_name
    /\ UNCHANGED <<perm_defaults, perm_overrides, auto_execute, remembered,
                   perm_result>>
    /\ PermFrame

\* request_approval ends: an approval given with remember=True is remembered.
request_approval(tool_name, approved, remember) ==
    /\ remembered' = IF approved /\ remember THEN remembered \cup {tool_name}
                     ELSE remembered
    /\ UNCHANGED <<perm_defaults, perm_overrides, auto_execute, perm_current_agent,
                   perm_result>>
    /\ PermFrame

clear_remembered ==
    /\ remembered' = {}
    /\ UNCHANGED <<perm_defaults, perm_overrides, auto_execute, perm_current_agent,
                   perm_result>>
    /\ PermFrame

set_bypass_mode(enabled) ==
    /\ bypass_mode' = enabled
    /\ UNCHANGED <<perm_defaults, perm_overrides, auto_execute, remembered,
                   perm_current_agent, perm_result>>
    /\ UNCHANGED <<bridge_vars, sp_vars, approval_vars, registry_vars, lock_vars>>

\* self._defaults.get(tool_name, PermissionState.ALLOW)
DefaultOf(tool_name) ==
    IF tool_name \in DOMAIN perm_defaults /\ perm_defaults[tool_name] /= "unset"
    THEN perm_defaults[tool_name]
    ELSE "allow"

\* agent_name in self._agent_overrides and tool_name in agent_perms
HasOverride(agent_name, tool_name) ==
    /\ agent_name /= ""
    /\ agent_name \in DOMAIN perm_overrides
    /\ tool_name \in DOMAIN perm_overrides[agent_name]
    /\ perm_overrides[agent_name][tool_name] /= "unset"

\* check that skips the agent's override.
check_without_override(tool_name, agent_arg) ==
    LET state == DefaultOf(tool_name)
        auto == IF state = "ask" /\ auto_execute THEN "allow" ELSE state
    IN IF auto = "ask" /\ tool_name \in remembered THEN "allow" ELSE auto

\* check whose auto_execute promotion applies to every state but ALLOW.
check_promoting_deny(tool_name, agent_arg) ==
    LET agent_name == IF agent_arg /= "" THEN agent_arg ELSE perm_current_agent
        state == IF HasOverride(agent_name, tool_name)
                 THEN perm_overrides[agent_name][tool_name]
                 ELSE DefaultOf(tool_name)
        auto == IF state /= "allow" /\ auto_execute THEN "allow" ELSE state
    IN IF auto = "ask" /\ tool_name \in remembered THEN "allow" ELSE auto

\* check without the auto_execute promotion.
check_without_auto_execute(tool_name, agent_arg) ==
    LET agent_name == IF agent_arg /= "" THEN agent_arg ELSE perm_current_agent
        state == IF HasOverride(agent_name, tool_name)
                 THEN perm_overrides[agent_name][tool_name]
                 ELSE DefaultOf(tool_name)
    IN IF state = "ask" /\ tool_name \in remembered THEN "allow" ELSE state

\* check under which bypass_mode allows everything.
check_bypassing(tool_name, agent_arg) ==
    LET agent_name == IF agent_arg /= "" THEN agent_arg ELSE perm_current_agent
        state == IF HasOverride(agent_name, tool_name)
                 THEN perm_overrides[agent_name][tool_name]
                 ELSE DefaultOf(tool_name)
        auto == IF state = "ask" /\ auto_execute THEN "allow" ELSE state
    IN IF bypass_mode THEN "allow"
       ELSE IF auto = "ask" /\ tool_name \in remembered THEN "allow" ELSE auto

\* _PermissionRegistry.check: the value it returns.
check(tool_name, agent_arg) ==
    LET agent_name == IF agent_arg /= "" THEN agent_arg ELSE perm_current_agent
        state == IF HasOverride(agent_name, tool_name)
                 THEN perm_overrides[agent_name][tool_name]
                 ELSE DefaultOf(tool_name)
        auto == IF state = "ask" /\ auto_execute THEN "allow" ELSE state
    IN IF auto = "ask" /\ tool_name \in remembered THEN "allow" ELSE auto

is_allowed(tool_name, agent_arg) == check(tool_name, agent_arg) = "allow"
is_denied(tool_name, agent_arg) == check(tool_name, agent_arg) = "deny"
needs_approval(tool_name, agent_arg) == check(tool_name, agent_arg) = "ask"

\* list(self._defaults.keys()): the tools given a default. A dict lists its keys
\* in insertion order, which perm_defaults does not keep; the catalogue's order
\* stands for it.
DefaultKeys ==
    LET HasKey(t) == perm_defaults[t] /= "unset"
    IN SelectSeq(<<"Read", "matlab_execute">>, HasKey)

\* _PermissionRegistry.get_allowed_tools(agent, all_tools): an empty (or
\* missing) all_tools is falsy, so `all_tools or keys` takes the defaults' keys.
Permission_get_allowed_tools(agent_arg, all_tools) ==
    LET tools_to_check == IF all_tools /= <<>> THEN all_tools ELSE DefaultKeys
        Allowed(t) == check(t, agent_arg) = "allow"
    IN SelectSeq(tools_to_check, Allowed)

\* A call of check: it assigns nothing; the call and its value are recorded.
check_call(tool_name, agent_arg) ==
    /\ perm_result' = [tool |-> tool_name, agent |-> agent_arg,
                       state |-> check(tool_name, agent_arg)]
    /\ UNCHANGED <<perm_defaults, perm_overrides, auto_execute, remembered,
                   perm_current_agent>>
    /\ PermFrame

\* ------------------------------------------------------ approval requests
ApprovalFrame ==
    UNCHANGED <<bridge_vars, sp_vars, registry_vars, lock_vars, perm_defaults, perm_overrides,
                auto_execute, perm_current_agent, perm_result, bypass_mode>>

set_approval_callback ==
    /\ approval_callback' = TRUE
    /\ UNCHANGED <<pending_requests, approvals, remembered>>
    /\ ApprovalFrame

\* approve(request_id, remember) and deny(request_id): they act on a request
\* found in _pending_requests and do nothing otherwise.
Approved(reqs, i, remember) ==
    [reqs EXCEPT ![i].approved = "true", ![i].remember = remember]

Denied(reqs, i) == [reqs EXCEPT ![i].approved = "false"]

approve(i, remember) ==
    /\ approvals' = IF i \in pending_requests THEN Approved(approvals, i, remember)
                    ELSE approvals
    /\ UNCHANGED <<approval_callback, pending_requests, remembered>>
    /\ ApprovalFrame

deny(i) ==
    /\ approvals' = IF i \in pending_requests THEN Denied(approvals, i) ELSE approvals
    /\ UNCHANGED <<approval_callback, pending_requests, remembered>>
    /\ ApprovalFrame

\* The end of request_approval that remembers every approval.
ApprovalCleanup_remembering(reqs, i) ==
    /\ pending_requests' = pending_requests \ {i}
    /\ remembered' = IF reqs[i].approved = "true"
                     THEN remembered \cup {reqs[i].tool} ELSE remembered
    /\ approvals' = [reqs EXCEPT ![i].pc = "returned", ![i].polls = 0,
                                 ![i].result = (reqs[i].approved = "true")]

\* The end of request_approval: the request leaves _pending_requests, an
\* approval given with remember is remembered, `approved or False` is returned.
ApprovalCleanup(reqs, i) ==
    /\ pending_requests' = pending_requests \ {i}
    /\ remembered' = IF reqs[i].approved = "true" /\ reqs[i].remember
                     THEN remembered \cup {reqs[i].tool} ELSE remembered
    /\ approvals' = [reqs EXCEPT ![i].pc = "returned", ![i].polls = 0,
                                 ![i].result = (reqs[i].approved = "true")]

\* One pass of the polling loop over request i, `done` polls behind it: the loop
\* is exhausted, or it sees a decision and breaks, or it sleeps once more.
ApprovalLoop(reqs, i, done) ==
    IF done = APPROVAL_POLLS \/ reqs[i].approved /= "none"
    THEN ApprovalCleanup(reqs, i)
    ELSE /\ approvals' = [reqs EXCEPT ![i].pc = "waiting", ![i].polls = done + 1]
         /\ UNCHANGED <<pending_requests, remembered>>

\* request_approval(tool_name) up to its first await, the caller awaiting one
\* call at a time: the request is created under a fresh id and registered;
\* without a callback the call ends at once; else the callback runs (it
\* returns, having decided through approve or deny or not at all, or it
\* raises, which leaves the call with the request still registered) and the
\* polling loop is entered.
ApprovalBegin(tool_name) ==
    /\ \A j \in ApprovalIds : approvals[j].pc /= "waiting"
    /\ \E i \in ApprovalIds :
          /\ approvals[i].pc = "unborn"
          /\ \A j \in ApprovalIds : j < i => approvals[j].pc /= "unborn"
          /\ LET created == [approvals EXCEPT ![i].tool = tool_name]
             IN IF ~approval_callback
                THEN ApprovalCleanup(created, i)
                ELSE \/ /\ approvals' = [created EXCEPT ![i].pc = "raised"]
                        /\ pending_requests' = pending_requests \cup {i}
                        /\ UNCHANGED remembered
                     \/ /\ pending_requests' = pending_requests \cup {i}
                        /\ approvals' = [created EXCEPT ![i].pc = "waiting", ![i].polls = 1]
                        /\ UNCHANGED remembered
                     \/ \E remember \in BOOLEAN :
                           ApprovalCleanup(Approved(created, i, remember), i)
                     \/ ApprovalCleanup(Denied(created, i), i)
    /\ UNCHANGED approval_callback
    /\ ApprovalFrame

\* asyncio.sleep(0.1) returns in request i's polling loop.
ApprovalPoll(i) ==
    /\ approvals[i].pc = "waiting"
    /\ ApprovalLoop(approvals, i, approvals[i].polls)
    /\ UNCHANGED approval_callback
    /\ ApprovalFrame

\* --------------------------------------------------- the session processor
SpFrame ==
    UNCHANGED <<bridge_vars, approval_vars, registry_vars, lock_vars, perm_defaults, perm_overrides,
                auto_execute, remembered, perm_result, bypass_mode>>

\* ToolDefinition.qualified_name: MCP tools are prefixed with the server name.
QualifiedName(t) == IF t = "matlab_execute" THEN "mcp__matlab__matlab_execute" ELSE t

\* Tool.get(name) finds the tool: register_builtin_tools registered the catalogue.
IsRegistered(t) == t \in ToolNames

\* _get_allowed_tools that keeps every tool that is not denied.
get_allowed_tools_not_denied(current) ==
    {QualifiedName(t) : t \in {u \in ToolNames : check(u, current) /= "deny"}}

\* _get_allowed_tools, called after Permission.set_current_agent(current):
\* is_allowed(name) resolves the tool for the current agent.
get_allowed_tools(current) ==
    {QualifiedName(t) : t \in {u \in ToolNames : is_allowed(u, current) /\ IsRegistered(u)}}
        \cup {t \in basic_tools : is_allowed(t, current)}

\* Clients built so far by start.
ClientsBuilt == Cardinality({n \in Clients : backend[n] /= "unborn"})

\* SessionProcessor.start(agent): it raises before anything is assigned (no
\* SDK, no CLI), or binds the agent, builds the options and the client, and
\* awaits __aenter__, which returns or raises.
sp_start(a) ==
    /\ \/ /\ sp_raised' = TRUE
          /\ UNCHANGED <<sp_client, sp_current_agent, sp_allowed, backend,
                         perm_current_agent>>
       \/ /\ ClientsBuilt < MaxStarts
          /\ sp_current_agent' = a
          /\ perm_current_agent' = a
          /\ sp_allowed' = get_allowed_tools(a)
          /\ sp_client' = ClientsBuilt + 1
          /\ \E entered \in BOOLEAN :
                /\ backend' = [backend EXCEPT ![ClientsBuilt + 1] =
                                  IF entered THEN "open" ELSE "broken"]
                /\ sp_raised' = ~entered
    /\ UNCHANGED <<sp_session_id, sp_turn_count>>
    /\ SpFrame

\* SessionProcessor.stop: nothing without a client; else __aexit__ is awaited
\* for at most 5 s, its timeout or exception is logged, and the finally block
\* clears the client, the agent and the turn count.
sp_stop ==
    /\ IF sp_client = 0
       THEN UNCHANGED <<sp_client, sp_current_agent, sp_turn_count, backend>>
       ELSE /\ sp_client' = 0
            /\ sp_current_agent' = "none"
            /\ sp_turn_count' = 0
            /\ \/ backend' = [backend EXCEPT ![sp_client] = "closed"]
               \/ UNCHANGED backend          \* __aexit__ timed out or raised
    /\ sp_raised' = FALSE
    /\ UNCHANGED <<sp_session_id, sp_allowed, perm_current_agent>>
    /\ SpFrame

\* SessionProcessor.query run to its end: it raises without a client; else the
\* stream ends (the ResultMessage's session id is stored, the turn is counted)
\* or the backend raises, before or after the session id was stored.
sp_query ==
    /\ IF sp_client = 0
       THEN /\ sp_raised' = TRUE
            /\ UNCHANGED <<sp_session_id, sp_turn_count>>
       ELSE \/ /\ backend[sp_client] = "open"
               /\ sp_turn_count < MaxTurns
               /\ sp_session_id' = sp_client
               /\ sp_turn_count' = sp_turn_count + 1
               /\ sp_raised' = FALSE
            \/ /\ sp_session_id' \in {sp_session_id, sp_client}
               /\ sp_raised' = TRUE
               /\ UNCHANGED sp_turn_count
    /\ UNCHANGED <<sp_client, sp_current_agent, sp_allowed, backend,
                   perm_current_agent>>
    /\ SpFrame

\* SessionProcessor.is_running
is_running == sp_client /= 0

\* ------------------------------------------------------------ specification
Submit == \E name \in AgentNames : start_async_message(name)

SetMode == \E m \in Modes : set_execution_mode(m)

Interrupt == InterruptBegin \/ InterruptStop \/ InterruptWaited

Shutdown == ShutdownBegin \/ ShutdownWaited \/ ShutdownJoin

Poll == poll_async_chunks \/ poll_async_content

\* The work behind the caller: request coroutines, the CLI thread, the stop
\* coroutines of interrupt and shutdown, and the loop's own stop.
Background ==
    \/ \E r \in Requests :
          \/ TaskBegin(r)
          \/ TaskSwitchStopped(r)
          \/ TaskStarted(r)
          \/ TaskStream(r)
          \/ TaskCompactQuery(r)
          \/ TaskCompactStop(r)
          \/ TaskCompactStart(r)
          \/ CliChunk(r)
          \/ CliComplete(r)

InterruptBackground ==
    \/ \E i \in 0..MaxSubmits : StopperRun(i) \/ StopperFinish(i)
    \/ \E r \in Requests : TaskBroke(r)

ShutdownBackground == ShutdownStopRun \/ ShutdownStopFinish \/ LoopStop

\* The caller submits and interrupts.
Next == Submit \/ Interrupt \/ Background \/ InterruptBackground

Spec == Init /\ [][Next]_vars

\* The caller submits, changes the execution mode and shuts the bridge down.
ShutdownNext == Submit \/ SetMode \/ Shutdown \/ Background \/ ShutdownBackground

ShutdownSpec == Init /\ [][ShutdownNext]_vars

\* The caller submits and polls the two buffers.
PollNext == Submit \/ Poll \/ Background

PollSpec == Init /\ [][PollNext]_vars

\* The caller submits and changes the execution mode.
RequestNext == Submit \/ SetMode \/ Background

RequestSpec == Init /\ [][RequestNext]_vars

\* The caller submits and clears the conversation.
Clear == ClearBegin \/ ClearWaited

ClearBackground == ResetRun \/ ResetFinish

ClearNext == Submit \/ Clear \/ Background \/ ClearBackground

ClearSpec == Init /\ [][ClearNext]_vars

\* ------------------------------------------------------ the agent registry
\* Text is a sequence of one-character strings, so that strip, lower,
\* startswith, slicing and the mention pattern are computed character by
\* character. Agent names and command prefixes stay strings; Spelling gives
\* their characters.
Spelling ==
    ("build" :> <<"b", "u", "i", "l", "d">>) @@
    ("plan" :> <<"p", "l", "a", "n">>) @@
    ("architect" :> <<"a", "r", "c", "h", "i", "t", "e", "c", "t">>) @@
    ("git" :> <<"g", "i", "t">>) @@
    ("github" :> <<"g", "i", "t", "h", "u", "b">>) @@
    ("/git" :> <<"/", "g", "i", "t">>) @@
    ("/github" :> <<"/", "g", "i", "t", "h", "u", "b">>)

\* Definitions handed to register: two primaries besides build, build as a
\* primary and as a sub-agent, and two sub-agents with commands of which one
\* is a prefix of the other.
AgentDefinitions ==
    {Definition("build", "primary", "", NoPermissions),
     Definition("build", "subagent", "", NoPermissions),
     Definition("plan", "primary", "",
                [NoPermissions EXCEPT !["matlab_execute"] = "deny"]),
     Definition("architect", "primary", "", NoPermissions),
     Definition("git", "subagent", "/git", NoPermissions),
     Definition("github", "subagent", "/github", NoPermissions)}

\* What load_all_agents returns for the directories handed to load.
AgentDirs ==
    {<<Definition("build", "primary", "", NoPermissions),
       Definition("git", "subagent", "/git", NoPermissions)>>,
     <<Definition("github", "subagent", "/github", NoPermissions),
       Definition("git", "subagent", "/git", NoPermissions)>>}

\* Messages handed to route: empty, plain text in blanks, a command, a command
\* in another case followed by a mention, the longer of two commands, a
\* mention, a mention of nobody, a bare mention.
Messages ==
    {<<>>,
     <<" ", "d", "e", "p", "l", "o", "y", " ">>,
     <<"/", "g", "i", "t", " ", "s", "t", "a", "t", "u", "s">>,
     <<"/", "G", "i", "t", " ", " ", "@", "p", "l", "a", "n", " ", "g", "o">>,
     <<"/", "g", "i", "t", "h", "u", "b", " ", "o", "p", "e", "n">>,
     <<"@", "g", "i", "t", " ", "s", "h", "o", "w", " ", "l", "o", "g">>,
     <<"@", "n", "o", "b", "o", "d", "y", " ", "h", "i">>,
     <<"@", "p", "l", "a", "n">>}

\* str.lower over the letters the messages hold in upper case.
lower(s) == [i \in DOMAIN s |-> IF s[i] = "G" THEN "g" ELSE s[i]]

RECURSIVE lstrip(_)
lstrip(s) == IF s /= <<>> /\ Head(s) = " " THEN lstrip(Tail(s)) ELSE s

RECURSIVE rstrip(_)
rstrip(s) ==
    IF s /= <<>> /\ s[Len(s)] = " " THEN rstrip(SubSeq(s, 1, Len(s) - 1)) ELSE s

strip(s) == rstrip(lstrip(s))

startswith(s, prefix) == Len(prefix) <= Len(s) /\ SubSeq(s, 1, Len(prefix)) = prefix

\* The characters \w matches among those of the messages.
WordChars ==
    {"a", "b", "c", "d", "e", "g", "h", "i", "l", "n", "o", "p", "r", "s", "t", "u",
     "w", "y", "G"}

\* How many leading characters of s lie in class: a greedy `+` or `*`.
RECURSIVE RunLength(_, _)
RunLength(s, class) ==
    IF s /= <<>> /\ Head(s) \in class THEN 1 + RunLength(Tail(s), class) ELSE 0

\* The mention pattern that leaves the mention in the message.
mention_match_keeping(s) ==
    LET n == IF s /= <<>> /\ Head(s) = "@" THEN RunLength(Tail(s), WordChars) ELSE 0
    IN  [matched |-> n >= 1, group |-> SubSeq(s, 2, n + 1), end |-> 0]

\* re.match(r'^@(\w+)\s*', s): whether it matches, group(1) and end().
mention_match(s) ==
    LET n == IF s /= <<>> /\ Head(s) = "@" THEN RunLength(Tail(s), WordChars) ELSE 0
    IN  [matched |-> n >= 1, group |-> SubSeq(s, 2, n + 1),
         end |-> n + 1 + RunLength(SubSeq(s, n + 2, Len(s)), {" "})]

is_primary(d) == d.mode = "primary"

\* self._agents.get(name) on a dict of definitions kept in insertion order.
AgentsGet(defs, name) ==
    LET at == {i \in DOMAIN defs : defs[i].name = name}
    IN  IF at = {} THEN NoDefinition ELSE defs[CHOOSE i \in at : TRUE]

get(name) == AgentsGet(reg_agents, name)

\* A store that appends even when the name has an entry.
AgentsPut_appending(defs, d) == Append(defs, d)

\* self._agents[agent.name] = agent: a new key goes last, an old key keeps
\* its place and takes the new value.
AgentsPut(defs, d) ==
    IF \E i \in DOMAIN defs : defs[i].name = d.name
    THEN [i \in DOMAIN defs |-> IF defs[i].name = d.name THEN d ELSE defs[i]]
    ELSE Append(defs, d)

\* if agent.command: self._commands[agent.command] = agent.name
CommandsPut(cmds, d) ==
    LET entry == [command |-> d.command, name |-> d.name]
    IN  IF d.command = "" THEN cmds
        ELSE IF \E i \in DOMAIN cmds : cmds[i].command = d.command
        THEN [i \in DOMAIN cmds |-> IF cmds[i].command = d.command THEN entry ELSE cmds[i]]
        ELSE Append(cmds, entry)

\* The loop of load over the definitions found, on the pair of dicts.
RECURSIVE Loaded(_, _)
Loaded(reg, dir) ==
    IF dir = <<>> THEN reg
    ELSE Loaded([agents |-> AgentsPut(reg.agents, Head(dir)),
                 commands |-> CommandsPut(reg.commands, Head(dir))], Tail(dir))

\* register's loop over agent.permissions on Permission's agent overrides.
Overridden(overrides, d) ==
    [a \in DOMAIN overrides |->
        [t \in ToolNames |->
            IF a = d.name /\ d.permissions[t] /= "unset" THEN d.permissions[t]
            ELSE overrides[a][t]]]

\* _AgentRegistry.get_by_command: the agent the command maps to, if any.
get_by_command(command) ==
    LET at == {i \in DOMAIN reg_commands : reg_commands[i].command = command}
    IN  IF at = {} THEN NoDefinition ELSE get(reg_commands[CHOOSE i \in at : TRUE].name)

list_primary == SelectSeq(reg_agents, is_primary)

default == get(current_primary)

\* A switch that accepts every registered agent.
CanSwitch_registered(name) == get(name) /= NoDefinition

\* switch's condition: `agent and agent.is_primary`.
CanSwitch(name) == get(name) /= NoDefinition /\ is_primary(get(name))

\* Step 1 of route on the stripped message: the first command in insertion
\* order the message starts with, whatever the case, whose agent exists.
CommandRoute(msg) ==
    LET hits == {i \in DOMAIN reg_commands :
                    /\ startswith(lower(msg), lower(Spelling[reg_commands[i].command]))
                    /\ get(reg_commands[i].name) /= NoDefinition}
        first == CHOOSE i \in hits : \A j \in hits : i <= j
    IN  IF hits = {} THEN NoResult
        ELSE [NoResult EXCEPT
                 !.agent = get(reg_commands[first].name), !.kind = "command",
                 !.cleaned = strip(SubSeq(msg,
                                 Len(Spelling[reg_commands[first].command]) + 1, Len(msg)))]

\* Step 2: a mention at the start of the message naming a registered agent.
MentionRoute(msg) ==
    LET m == mention_match(msg)
        named == {i \in DOMAIN reg_agents : Spelling[reg_agents[i].name] = m.group}
    IN  IF ~m.matched \/ named = {} THEN NoResult
        ELSE [NoResult EXCEPT
                 !.agent = reg_agents[CHOOSE i \in named : TRUE], !.kind = "mention",
                 !.cleaned = strip(SubSeq(msg, m.end + 1, Len(msg)))]

\* Steps 3 and 4 without the test of default()'s result.
DefaultRoute_unguarded(msg) ==
    [NoResult EXCEPT !.agent = default, !.kind = "default", !.cleaned = msg]

\* Steps 3 and 4: the current default if there is one, else a synthesized
\* AgentDefinition(name="general"), whose mode defaults to "subagent".
DefaultRoute(msg) ==
    IF default /= NoDefinition
    THEN [NoResult EXCEPT !.agent = default, !.kind = "default", !.cleaned = msg]
    ELSE [NoResult EXCEPT !.agent = Definition("general", "subagent", "", NoPermissions),
                          !.kind = "fallback", !.cleaned = msg]

\* _AgentRegistry.route: what it returns for the message.
route(message) ==
    LET msg == strip(message)
        found == IF CommandRoute(msg) /= NoResult THEN CommandRoute(msg)
                 ELSE IF MentionRoute(msg) /= NoResult THEN MentionRoute(msg)
                 ELSE DefaultRoute(msg)
    IN  [found EXCEPT !.op = "route", !.ok = TRUE, !.message = message]

\* What the registry's calls leave alone.
RegistryFrame ==
    UNCHANGED <<bridge_vars, sp_vars, approval_vars, lock_vars, perm_defaults, auto_execute,
                remembered, perm_result, bypass_mode>>

load(dir) ==
    LET reg == Loaded([agents |-> reg_agents, commands |-> reg_commands], dir)
    IN  /\ reg_agents' = reg.agents
        /\ reg_commands' = reg.commands
        /\ reg_result' = [NoResult EXCEPT !.op = "load", !.ok = TRUE]
        /\ UNCHANGED <<current_primary, perm_overrides, perm_current_agent>>
        /\ RegistryFrame

register(d) ==
    /\ reg_agents' = AgentsPut(reg_agents, d)
    /\ reg_commands' = CommandsPut(reg_commands, d)
    /\ perm_overrides' = Overridden(perm_overrides, d)
    /\ reg_result' = [NoResult EXCEPT !.op = "register", !.ok = TRUE, !.name = d.name,
                                      !.agent = d]
    /\ UNCHANGED <<current_primary, perm_current_agent>>
    /\ RegistryFrame

\* switch's effect on the pointer and on Permission's current agent.
Switch(name) ==
    /\ current_primary' = IF CanSwitch(name) THEN name ELSE current_primary
    /\ perm_current_agent' = IF CanSwitch(name) THEN name ELSE perm_current_agent

switch(name) ==
    /\ Switch(name)
    /\ reg_result' = [NoResult EXCEPT !.op = "switch", !.ok = CanSwitch(name),
                                      !.name = name]
    /\ UNCHANGED <<reg_agents, reg_commands, perm_overrides>>
    /\ RegistryFrame

toggle_primary ==
    LET primary_names == [i \in DOMAIN list_primary |-> list_primary[i].name]
        at == {i \in DOMAIN primary_names : primary_names[i] = current_primary}
        next_idx == IF at /= {} THEN ((CHOOSE i \in at : TRUE) % Len(primary_names)) + 1
                    ELSE 1
    IN  /\ IF Len(list_primary) < 2
           THEN /\ reg_result' = [NoResult EXCEPT !.op = "toggle", !.name = default.name]
                /\ UNCHANGED <<current_primary, perm_current_agent>>
           ELSE /\ Switch(primary_names[next_idx])
                /\ reg_result' = [NoResult EXCEPT !.op = "toggle",
                                                  !.name = primary_names[next_idx]]
        /\ UNCHANGED <<reg_agents, reg_commands, perm_overrides>>
        /\ RegistryFrame

\* A call of route that makes the routed agent the current primary.
route_call_switching(message) ==
    /\ reg_result' = route(message)
    /\ current_primary' = route(message).agent.name
    /\ UNCHANGED <<reg_agents, reg_commands, perm_overrides, perm_current_agent>>
    /\ RegistryFrame

\* A call of route: nothing but the returned result changes.
route_call(message) ==
    /\ reg_result' = route(message)
    /\ UNCHANGED <<reg_agents, reg_commands, current_primary, perm_overrides,
                   perm_current_agent>>
    /\ RegistryFrame

\* The permission registry under every sequence of its setters and of check.
SetDefault == \E t \in ToolNames, st \in PermissionState : set_default(t, st)

SetAgentOverride ==
    \E a \in OverrideAgents, t \in ToolNames, st \in PermissionState :
        set_agent_override(a, t, st)

SetAutoExecute == \E b \in BOOLEAN : set_auto_execute(b)

SetCurrentAgent == \E a \in SpAgentNames : set_current_agent(a)

RequestApproval ==
    \E t \in ToolNames, approved \in BOOLEAN, remember \in BOOLEAN :
        request_approval(t, approved, remember)

Check == \E t \in CheckTools, a \in CheckAgents : check_call(t, a)

PermissionNext ==
    \/ SetDefault
    \/ SetAgentOverride
    \/ SetAutoExecute
    \/ SetCurrentAgent
    \/ RequestApproval
    \/ clear_remembered
    \/ Check
    \/ \E b \in BOOLEAN : set_bypass_mode(b)

\* The registry next to a freshly constructed bridge in SDK mode.
PermissionInit == Init /\ InitFresh /\ use_sdk

PermissionSpec == PermissionInit /\ [][PermissionNext]_vars

\* Approval requests made one after another, decided by approve and deny at any
\* time, next to a default that asks; the loop's sleeps return.
ApprovalTools == {"matlab_execute"}

ApprovalNext ==
    \/ set_approval_callback
    \/ \E t \in ApprovalTools : set_default(t, "ask")
    \/ \E t \in ApprovalTools : ApprovalBegin(t)
    \/ \E i \in ApprovalIds : ApprovalPoll(i)
    \/ \E i \in ApprovalIds, remember \in BOOLEAN : approve(i, remember)
    \/ \E i \in ApprovalIds : deny(i)

ApprovalSpec == PermissionInit /\ [][ApprovalNext]_vars

ApprovalFairSpec == ApprovalSpec /\ \A i \in ApprovalIds : WF_vars(ApprovalPoll(i))

\* The agent registry under every sequence of load, register, switch,
\* toggle_primary and route.
RegistryNames == {d.name : d \in AgentDefinitions} \cup {"nobody"}

RegistryNext ==
    \/ \E dir \in AgentDirs : load(dir)
    \/ \E d \in AgentDefinitions : register(d)
    \/ \E name \in RegistryNames : switch(name)
    \/ toggle_primary
    \/ \E message \in Messages : route_call(message)

RegistrySpec == PermissionInit /\ [][RegistryNext]_vars

\* The registry filled by load and register in turn, with definitions that
\* carry permissions or replace an earlier one of the same name: plan with its
\* override, git with and without its command.
ReloadDefinitions ==
    {Definition("plan", "primary", "", [NoPermissions EXCEPT !["matlab_execute"] = "deny"]),
     Definition("git", "subagent", "/git", NoPermissions),
     Definition("git", "subagent", "", NoPermissions)}

ReloadDirs ==
    AgentDirs \cup
    {<<Definition("plan", "primary", "",
                  [NoPermissions EXCEPT !["matlab_execute"] = "deny"])>>}

ReloadNext ==
    \/ \E dir \in ReloadDirs : load(dir)
    \/ \E d \in ReloadDefinitions : register(d)
    \/ \E message \in Messages : route_call(message)

ReloadSpec == PermissionInit /\ [][ReloadNext]_vars

\* The session processor under every sequence of start, stop and query, next to
\* a permission registry whose settings change between the calls.
SpStart == \E a \in SpAgentNames : sp_start(a)

ProcessorNext ==
    \/ SpStart
    \/ sp_stop
    \/ sp_query
    \/ SetDefault
    \/ SetAgentOverride
    \/ SetAutoExecute

ProcessorSpec == PermissionInit /\ [][ProcessorNext]_vars

\* ------------------------------------------------------- the async lock
\* What each method does to _async_lock and to the fields of the Pending Async
\* Operation, in program order: an instruction acquires or releases the lock,
\* or reads or writes one field at one source line.
Acquire(line) == [kind |-> "acquire", field |-> "lock", line |-> line]
Release(line) == [kind |-> "release", field |-> "lock", line |-> line]
Reads(field, line) == [kind |-> "read", field |-> field, line |-> line]
Writes(field, line) == [kind |-> "write", field |-> field, line |-> line]

\* `with self._async_lock:` around body.
WithLock(line, body) == <<Acquire(line)>> \o body \o <<Release(line)>>

\* A result is stored and the completion flag raised under the lock.
StoreResult(line, response_line, complete_line) ==
    WithLock(line, <<Writes("response", response_line),
                     Writes("complete", complete_line)>>)

RECURSIVE Repeat(_, _)
Repeat(n, code) == IF n = 0 THEN <<>> ELSE code \o Repeat(n - 1, code)

\* One pass of the streaming loop that appends: the interrupt flag is read
\* before the lock is taken.
AppendCode ==
    <<Reads("interrupt_requested", 525)>>
        \o WithLock(532, <<Writes("content", 534), Writes("chunks", 538)>>)

\* How run() leaves its try block: the stream ended, the break on the interrupt
\* flag, CancelledError, an exception, or a CancelledError whose handler raises.
EndingCode ==
    { StoreResult(549, 550, 559),
      <<Reads("interrupt_requested", 525)>> \o StoreResult(549, 550, 559),
      StoreResult(585, 586, 596),
      StoreResult(606, 607, 616),
      <<>> }

\* The finally block of run(): writes only when the flag is still down.
SafetyNetCode ==
    { WithLock(622, <<Reads("complete", 623)>>),
      WithLock(622, <<Reads("complete", 623), Writes("response", 624),
                      Writes("complete", 633)>>) }

\* run_with_cancel_support around run(): with or without an agent.
RunCode ==
    { <<Writes("current_task", 638)>> \o body \o <<Writes("current_task", 642)>> :
        body \in {StoreResult(502, 503, 512)}
                    \cup { Repeat(n, AppendCode) \o ending \o net :
                              n \in 0..MaxEvents, ending \in EndingCode,
                              net \in SafetyNetCode } }

\* on_chunk and on_complete of the CLI fallback.
CliCode == { WithLock(418, <<Writes("chunks", 419)>>), StoreResult(422, 423, 424) }

\* start_async_message: refused while shutting down, else the reset.
SubmitCode ==
    { StoreResult(357, 358, 367),
      WithLock(379, <<Writes("response", 380), Writes("chunks", 381),
                      Writes("content", 382), Writes("complete", 383),
                      Writes("interrupt_requested", 384)>>) }

\* poll_async_chunks, poll_async_content, is_async_complete, get_async_response.
PollCode ==
    { WithLock(657, <<Reads("chunks", 658), Writes("chunks", 659)>>),
      WithLock(671, <<Reads("content", 672), Writes("content", 673)>>),
      WithLock(684, <<Reads("complete", 685)>>),
      WithLock(693, <<Reads("response", 694)>>) }

\* interrupt_process: the log line reads the completion flag, the check and the
\* mark are under the lock, the task handle is read and the flag reset after it.
InterruptCode ==
    LET logged == <<Reads("complete", 713)>>
        marked == WithLock(717, <<Reads("complete", 718),
                                  Writes("interrupt_requested", 723),
                                  Writes("response", 726), Writes("complete", 736)>>)
        reset_flag == <<Writes("interrupt_requested", 777)>>
    IN { logged \o WithLock(717, <<Reads("complete", 718)>>),
         logged \o marked \o <<Reads("current_task", 739)>> \o reset_flag,
         logged \o marked
            \o <<Reads("current_task", 739), Reads("current_task", 739),
                 Reads("current_task", 743)>>
            \o reset_flag }

\* shutdown marks a pending operation complete.
ShutdownCode ==
    { WithLock(803, <<Reads("complete", 804)>>),
      WithLock(803, <<Reads("complete", 804), Writes("response", 805),
                      Writes("complete", 814)>>) }

CodeOf(th) ==
    IF th = "caller"
    THEN SubmitCode \cup PollCode \cup InterruptCode \cup ShutdownCode
    ELSE RunCode \cup CliCode

LockFrame == UNCHANGED <<bridge_vars, sp_vars, perm_vars, approval_vars, registry_vars>>

\* A thread enters one of its methods (the background context: a coroutine or a
\* callback is run).
LockCall(th) ==
    /\ lock_code[th] = <<>>
    /\ \E code \in CodeOf(th) : lock_code' = [lock_code EXCEPT ![th] = code]
    /\ UNCHANGED <<async_lock, accessed>>
    /\ LockFrame

\* A thread runs its next instruction; acquiring waits for a free lock.
LockStep(th) ==
    /\ lock_code[th] /= <<>>
    /\ LET ins == Head(lock_code[th])
       IN /\ ins.kind = "acquire" => async_lock = "free"
          /\ async_lock' = CASE ins.kind = "acquire" -> th
                              [] ins.kind = "release" -> "free"
                              [] OTHER -> async_lock
          /\ accessed' = IF ins.kind \in {"read", "write"}
                         THEN [thread |-> th, field |-> ins.field, kind |-> ins.kind,
                               line |-> ins.line, locked |-> async_lock = th]
                         ELSE accessed
    /\ lock_code' = [lock_code EXCEPT ![th] = Tail(@)]
    /\ LockFrame

\* The caller's thread and the background context, each running the bridge's
\* methods one after another, in any interleaving.
LockNext == \E th \in LockThreads : LockCall(th) \/ LockStep(th)

LockSpec == PermissionInit /\ [][LockNext]_vars

\* ------------------------------------------------------------ the claims
\* The background work of request r has ended: its coroutine returned (or was
\* left by an exception), or its CLI thread reached its end.
WorkEnded(r) == tasks[r].pc = "done" \/ cli[r].pc = "done"

\* A request is in flight: one was submitted and is not yet marked complete.
InFlight == nsubmit > 0 /\ ~is_async_complete

\* interrupt_process is on its `return True` path and returns in this step.
InterruptReturnsTrue ==
    caller \in {"interrupt_stop", "interrupt_wait"} /\ caller' = "idle"

\* C1: every submitted request becomes complete no later than the end of its
\* background work, whichever way that work ends. Stated as the safety half of
\* the liveness claim: once the work of the latest request has ended, the
\* request is complete (nothing is left that could complete it later).
C1_CompleteWhenWorkEnded ==
    \A r \in Requests : (r = nsubmit /\ WorkEnded(r)) => is_async_complete

\* C2: when interrupt_process returns True for a submitted request, the request
\* is complete with interrupted = TRUE, and the result keeps interrupted = TRUE
\* until the next submit, whatever the background work does afterwards.
C2_InterruptedUntilNextSubmit ==
    [][ /\ (nsubmit > 0 /\ InterruptReturnsTrue)
            => (is_async_complete' /\ get_async_response'.interrupted)
        /\ (nsubmit > 0 /\ nsubmit' = nsubmit
              /\ is_async_complete /\ get_async_response.interrupted)
            => (is_async_complete' /\ get_async_response'.interrupted) ]_vars

\* C3: from the moment a request is complete until the next submit, the result
\* is one fixed non-null value and nothing is appended to the chunk or content
\* buffers.
C3_FrozenAfterComplete ==
    [][ (is_async_complete /\ nsubmit' = nsubmit)
            => /\ ~get_async_response.none
               /\ is_async_complete'
               /\ get_async_response' = get_async_response
               /\ emitted_chunks' = emitted_chunks
               /\ emitted_content' = emitted_content ]_vars

\* C4: interrupt_process takes its `return True` path (raising the flag and
\* storing the interrupted result) only when a request is in flight; with
\* nothing in flight -- a fresh bridge included -- it returns False and leaves
\* the pending operation alone.
C4_NoInterruptWithoutRequest ==
    [][ (caller = "idle" /\ ~InFlight) => caller' /= "interrupt_stop" ]_vars

\* C5: once shutdown was called the shutdown flag stays up, and every later
\* submit completes the request at once with the 'Bridge is shutting down'
\* error and starts nothing: no routing, no coroutine, no CLI thread, no change
\* to the loop, the agents or the buffers.
C5_ShutdownFailsFast ==
    [][ /\ shutdown_requested => shutdown_requested'
        /\ (shutdown_requested /\ nsubmit' = nsubmit + 1)
            => /\ is_async_complete'
               /\ get_async_response' = ShuttingDownResponse
               /\ ~get_async_response'.success
               /\ UNCHANGED <<current_routing, tasks, cli, current_task, loop,
                              agent, agents, agent_running, async_chunks,
                              async_content>> ]_vars

\* A submit was rejected after shutdown.
C5_Witness ==
    /\ shutdown_requested
    /\ nsubmit > 0
    /\ get_async_response = ShuttingDownResponse

\* C6: shutdown returns True only when the graceful session stop and the loop
\* termination both finished: the stop coroutine, when one was scheduled, ran to
\* its end with the client released, and the loop thread has ended.
C6_TrueOnlyWhenClean ==
    ret = "True" => /\ shutdown_stop.pc \in {"none", "stopped"}
                    /\ ~LoopIsRunning

\* The text chunks the bridge derives from a sequence of content dicts.
RECURSIVE ChunksOf(_)
ChunksOf(events) ==
    IF events = <<>> THEN <<>> ELSE ChunkOf(Head(events)) \o ChunksOf(Tail(events))

\* The first n events of request r, in the order the backend emits them.
Streamed(r, n) == [i \in 1..n |-> Event(EventType(r, i), r, i)]

Live(r) == tasks[r].pc \notin {"none", "sched", "done"}

\* C8: with a caller that submits only after the previous request was seen
\* complete, no two request coroutines are live together.
C8_OneRunning == Cardinality({r \in Requests : Live(r)}) <= 1

\* The backend raised while request r was streaming: run()'s `except Exception`.
StreamErrorStep(r) ==
    /\ tasks[r].pc = "query"
    /\ tasks'[r].pc = "done"
    /\ get_async_response'.error = "str(e)"

\* The coroutine of request r runs its first slice.
FirstSlice(r) == tasks[r].pc = "sched" /\ tasks'[r].pc /= "sched"

\* The bound agent is the one request r is routed to, in the current mode.
RoutedToBound(r) ==
    agents[agent].cfg = tasks[r].name /\ agents[agent].mode = execution_mode

\* C9: a backend error while streaming completes the request with an error
\* result (success false, error text, not interrupted) and leaves the agent and
\* its session as they were, the bridge still holding it as running; a request
\* routed to the bound agent (same configuration, same execution mode) while
\* the session is open goes straight to the query on that session; and when the
\* bridge holds no running session (a start that failed) the request routed to
\* the bound agent starts it again.
C9_ErrorLeavesSessionRunning ==
    [][ \A r \in Requests :
          /\ StreamErrorStep(r)
                => /\ is_async_complete'
                   /\ ~get_async_response'.success
                   /\ get_async_response'.error /= ""
                   /\ ~get_async_response'.interrupted
                   /\ agent_running'
                   /\ UNCHANGED <<agent, agents>>
          /\ (FirstSlice(r) /\ RoutedToBound(r) /\ agent_running
                /\ agents[agent].client = "open")
                => /\ tasks'[r].pc = "query"
                   /\ tasks'[r].ag = agent
                   /\ agent_running'
                   /\ UNCHANGED <<agent, agents>>
          /\ (FirstSlice(r) /\ RoutedToBound(r) /\ ~agent_running)
                => /\ agent' = agent
                   /\ \/ tasks'[r].pc = "starting" /\ agents'[agent].client = "new"
                      \/ tasks'[r].pc = "done" /\ get_async_response'.error = "str(e)" ]_vars

\* A streaming request ended with the backend's error and its session is still
\* open and held as running.
C9_Witness ==
    /\ nsubmit > 0
    /\ tasks[nsubmit].pc = "done"
    /\ is_async_complete
    /\ get_async_response.error = "str(e)"
    /\ agent_running
    /\ agents[agent].client = "open"

\* C10: at most one backend session is open at any time.
C10_OneSessionOpen == Cardinality({a \in AgentIds : agents[a].client = "open"}) <= 1

\* ------------------------------------------------ session processor claims
\* A start call made while a session is open, for another agent than the bound one.
StartOverRunning ==
    /\ is_running
    /\ backend[sp_client] = "open"
    /\ \E a \in SpAgentNames : a /= sp_current_agent /\ sp_start(a)

\* C11: start(agent) on a running session processor bound to a different agent,
\* with no stop in between, is rejected: it raises, the bound agent and the
\* client stay as they were, and no second backend session is opened.
C11_StartOverRunningRejected ==
    [][StartOverRunning =>
          /\ sp_raised'
          /\ UNCHANGED <<sp_client, sp_current_agent, backend>>]_vars

\* A stop() call on the bridge's agent, awaited to its end by stopper i.
AgentStopReturns(i) ==
    /\ stoppers[i].pc = "stopping"
    /\ stoppers'[i].pc = "none"

\* C12: stop() is safe in every state: not running, it is a no-op; running, it
\* releases the backend session handle unconditionally, so no handle is held
\* once the call has ended, even if the backend's close call raised.
C12_StopReleasesHandle ==
    [][\A i \in 0..MaxSubmits :
          AgentStopReturns(i) => agents'[stoppers[i].target].client = "none"]_vars

\* A stop() call on a running session processor.
StopRunning == is_running /\ sp_stop

\* C13: stopping a running session invalidates the turn counter and the
\* session identifier: after stop() the turn count is 0 and session_id no
\* longer reports the identifier the backend gave to the stopped session.
C13_StopInvalidatesSession ==
    [][StopRunning => /\ sp_turn_count' = 0
                      /\ sp_session_id' /= sp_client]_vars

\* ------------------------------------------------------- compaction claims
\* Request r is inside agent.compact_conversation().
InCompaction(r) == tasks[r].pc \in {"compact_query", "compact_stop", "compact_start"}

\* Request r enters compact_conversation() with a client in this step.
CompactionBegins(r) == ~InCompaction(r) /\ InCompaction(r)'

\* C14: when the turn counter reaches the threshold (50) through successful
\* completions on one agent, exactly one compaction cycle runs: a cycle begins
\* only at the completion that brings the counter to the threshold, and never
\* while another cycle is running; below the threshold none begins.
C14_OneCompactionCycle ==
    [][\A r \in Requests :
          CompactionBegins(r) =>
              /\ agents'[tasks'[r].ag].turns = COMPACTION_THRESHOLD
              /\ \A q \in Requests \ {r} : ~InCompaction(q)]_vars

\* The summary query of request r's compaction, sent on a live client, raised:
\* the request leaves compact_conversation() from its first await, uncancelled.
SummaryFails(r) ==
    /\ tasks[r].pc = "compact_query"
    /\ agents[tasks[r].ag].client /= "none"
    /\ ~CancelPending(r)
    /\ ~InCompaction(r)'

\* C15: if the summarization query of a compaction cycle errors, compaction is
\* abandoned silently: the turn count and the session (client, agent binding,
\* running flag) are left as they were, so the session is neither stopped nor
\* restarted, and no exception escapes: the stored response is not replaced by
\* an error and the request's coroutine ends normally.
C15_SummaryErrorAbandonsSilently ==
    [][\A r \in Requests :
          SummaryFails(r) =>
              /\ UNCHANGED <<agents, agent, agent_running>>
              /\ UNCHANGED <<async_response, async_complete>>
              /\ tasks'[r].pc = "done"]_vars

\* A compaction was abandoned and the uncompacted session serves the next
\* request: the first request has ended, the counter is still at the
\* threshold, the client is open and the second request is streaming on it.
C15_Witness ==
    /\ nsubmit = 2
    /\ tasks[1].pc = "done"
    /\ tasks[2].pc = "query"
    /\ agents[tasks[2].ag].turns = COMPACTION_THRESHOLD
    /\ agents[tasks[2].ag].client = "open"
    /\ agent_running

\* ------------------------------------------------------ turn counter claims
\* clear_conversation returns to its caller after its reset coroutine ended.
ClearReturns == caller = "clear_wait" /\ caller' = "idle" /\ reset.pc = "none"

\* The turn counter the bridge reports: that of the bound agent.
turn_count == agents[agent].turns

\* C16: the turn counter only increases while the session stays bound to the
\* same agent (a compaction restart apart); switching the bound agent and
\* clear_conversation each reset it to zero, so the counter reported after a
\* switch or a clear carries no turns of the previous binding.
C16_CounterResetOnSwitchAndClear ==
    [][/\ ClearReturns /\ use_sdk => turn_count' = 0
       /\ agent' /= agent => turn_count' = 0
       /\ agent' = agent /\ turn_count' < turn_count =>
              \E r \in Requests : InCompaction(r) /\ tasks[r].ag = agent]_vars

\* ------------------------------------------------------ permission claims
\* A start call got past its early checks and built a client with its options.
StartBuilds == sp_client' \notin {0, sp_client}

\* C17: the capability list start(agent) passes to the backend session is the
\* tool catalogue filtered through the permission cascade for that agent: a
\* catalogue tool is in the list exactly when check(tool, agent) is ALLOW at
\* start time, so a tool resolving to DENY or ASK is never in it.
C17_AllowListIsFilteredCatalogue ==
    [][StartBuilds =>
          LET a == sp_current_agent'
          IN /\ sp_allowed' =
                   {QualifiedName(t) : t \in {u \in ToolNames : check(u, a) = "allow"}}
             /\ \A t \in ToolNames :
                   check(t, a) \in {"deny", "ask"} => QualifiedName(t) \notin sp_allowed']_vars

\* A session started for plan while plan's override denies matlab_execute,
\* which the default allows: the list holds Read and not the denied tool.
C17_Witness ==
    /\ is_running
    /\ sp_current_agent = "plan"
    /\ perm_defaults["matlab_execute"] = "allow"
    /\ perm_overrides["plan"]["matlab_execute"] = "deny"
    /\ sp_allowed = {"Read"}

\* The cascade as the specification words it, for the agent the call names (the
\* current agent when it names none): the global default, ALLOW when never
\* set; replaced by the agent's override when it has one; ASK promoted to
\* ALLOW under auto_execute or a remembered approval.
ReferenceCascade(tool_name, agent_name) ==
    LET global == IF tool_name \in ToolNames /\ perm_defaults[tool_name] /= "unset"
                  THEN perm_defaults[tool_name]
                  ELSE "allow"
        known == agent_name \in OverrideAgents /\ tool_name \in ToolNames
        resolved == IF known /\ perm_overrides[agent_name][tool_name] /= "unset"
                    THEN perm_overrides[agent_name][tool_name]
                    ELSE global
    IN CASE resolved = "deny" -> "deny"
         [] resolved = "allow" -> "allow"
         [] resolved = "ask" /\ (auto_execute \/ tool_name \in remembered) -> "allow"
         [] OTHER -> "ask"

\* The agent a check call resolves for.
EffectiveAgent(agent_arg) == IF agent_arg /= "" THEN agent_arg ELSE perm_current_agent

\* C18: in every reachable registry state, check(tool, agent) equals the
\* reference cascade for every tool (known or not) and every agent (with or
\* without overrides, or none named).
C18_CheckIsReferenceCascade ==
    \A t \in CheckTools, a \in CheckAgents :
        check(t, a) = ReferenceCascade(t, EffectiveAgent(a))

\* Every step of the cascade has decided a result: an override has replaced a
\* default, and a remembered approval has promoted an ASK, with auto_execute off.
C18_Witness ==
    /\ ~auto_execute
    /\ perm_defaults["matlab_execute"] = "allow"
    /\ perm_overrides["plan"]["matlab_execute"] = "ask"
    /\ "matlab_execute" \in remembered
    /\ perm_defaults["Read"] = "ask"
    /\ perm_overrides["plan"]["Read"] = "deny"
    /\ perm_result = [tool |-> "matlab_execute", agent |-> "plan", state |-> "allow"]

\* What defaults and overrides alone resolve a pair to, before the global
\* settings and the remembered approvals are applied.
BaseState(t, a) ==
    IF HasOverride(EffectiveAgent(a), t)
    THEN perm_overrides[EffectiveAgent(a)][t]
    ELSE DefaultOf(t)

\* A check call returned and its result differs from the last one observed.
CheckReturned == perm_result' /= perm_result

\* C19: permission resolution is total and pure: check(T, A) is one of ALLOW,
\* ASK, DENY for every tool and agent in every reachable state, and a check
\* call changes nothing in the registry; a pair that defaults and overrides
\* resolve to DENY resolves to DENY whatever auto_execute and the remembered
\* approvals are, so also after auto_execute is switched on and after the tool
\* is remembered-approved.
C19_CheckTotalPureDenySticky ==
    /\ [](\A t \in CheckTools, a \in CheckAgents :
              /\ check(t, a) \in PermissionState
              /\ BaseState(t, a) = "deny" => check(t, a) = "deny")
    /\ [][CheckReturned =>
              UNCHANGED <<perm_defaults, perm_overrides, auto_execute, remembered,
                          perm_current_agent>>]_vars

\* A pair denied by plan's override is checked with auto_execute on and the
\* tool remembered-approved: the call returned DENY.
C19_Witness ==
    /\ auto_execute
    /\ "matlab_execute" \in remembered
    /\ perm_overrides["plan"]["matlab_execute"] = "deny"
    /\ perm_result = [tool |-> "matlab_execute", agent |-> "plan", state |-> "deny"]

\* C20 as stated: with the default of T set to ASK, check(T, A) is ALLOW for
\* any agent A while auto_execute is on, and ASK again once it is off.
C20_AutoExecutePromotesForAnyAgent ==
    \A t \in ToolNames, a \in CheckAgents :
        perm_defaults[t] = "ask" =>
            check(t, a) = IF auto_execute THEN "allow" ELSE "ask"

\* C20, amended: with the default of T set to ASK and no override of T for the
\* agent A the call resolves for, check(T, A) is ALLOW while auto_execute is
\* on; once it is off, check(T, A) is ASK again unless T was remembered-approved.
C20_AutoExecutePromotesWithoutOverride ==
    \A t \in ToolNames, a \in CheckAgents :
        perm_defaults[t] = "ask" /\ ~HasOverride(EffectiveAgent(a), t) =>
            check(t, a) = IF auto_execute \/ t \in remembered THEN "allow" ELSE "ask"

\* The last check of Read for build, whose default is ASK, returned ALLOW under
\* auto_execute, and auto_execute has been switched off again since.
C20_Witness ==
    /\ perm_defaults["Read"] = "ask"
    /\ ~auto_execute
    /\ "Read" \notin remembered
    /\ perm_result = [tool |-> "Read", agent |-> "build", state |-> "allow"]
    /\ check("Read", "build") = "ask"

\* ------------------------------------------------ permission claims, continued
\* C21: bypass_mode is orthogonal to permission resolution: a step that changes
\* the bypass flag changes nothing else, and check, is_allowed, is_denied,
\* needs_approval and get_allowed_tools return after it what they returned
\* before it, for every tool, agent and candidate list; so two registry states
\* that differ only in bypass_mode resolve alike.
C21_BypassModeOrthogonal ==
    [][bypass_mode' /= bypass_mode =>
          /\ UNCHANGED <<bridge_vars, sp_vars, approval_vars, registry_vars, lock_vars,
                         perm_defaults, perm_overrides, auto_execute, remembered,
                         perm_current_agent, perm_result>>
          /\ \A t \in CheckTools, a \in CheckAgents :
                /\ check(t, a)' = check(t, a)
                /\ is_allowed(t, a)' = is_allowed(t, a)
                /\ is_denied(t, a)' = is_denied(t, a)
                /\ needs_approval(t, a)' = needs_approval(t, a)
          /\ \A a \in CheckAgents, c \in CandidateLists :
                Permission_get_allowed_tools(a, c)' = Permission_get_allowed_tools(a, c)]_vars

\* bypass_mode is on, and a tool that needs approval and a tool the agent's
\* override denies resolve as they do without it.
C21_Witness ==
    /\ bypass_mode
    /\ ~auto_execute
    /\ check("Read", "plan") = "ask"
    /\ check("matlab_execute", "plan") = "deny"
    /\ perm_result = [tool |-> "matlab_execute", agent |-> "plan", state |-> "deny"]

\* C22: an approval request always terminates. request_approval registers the
\* request under an identifier not in use and polls at most APPROVAL_POLLS
\* times; a call that waits returns; it returns true exactly when the decision
\* standing at its return is an approval, so false when denied, undecided at
\* the timeout or made without a callback; on return the request is no longer
\* pending; a tool joins the remembered approvals only through a call that
\* returns approved with remember, and check no longer returns ASK for it.
C22_ApprovalTerminates ==
    /\ [](\A i \in ApprovalIds :
              /\ approvals[i].pc = "waiting" =>
                    i \in pending_requests /\ approvals[i].polls <= APPROVAL_POLLS
              /\ approvals[i].pc = "returned" =>
                    /\ i \notin pending_requests
                    /\ approvals[i].result = (approvals[i].approved = "true"))
    /\ [](\A t \in remembered, a \in CheckAgents : check(t, a) /= "ask")
    /\ [][/\ \A i \in ApprovalIds :
                approvals[i].pc = "unborn" /\ approvals'[i].pc /= "unborn" =>
                    i \notin pending_requests
          /\ \A t \in ToolNames :
                t \in remembered' \ remembered =>
                    \E i \in ApprovalIds :
                        /\ approvals[i].pc /= "returned"
                        /\ approvals'[i] = [pc |-> "returned", tool |-> t,
                                            approved |-> "true", remember |-> TRUE,
                                            polls |-> 0, result |-> TRUE]]_vars
    /\ \A i \in ApprovalIds : approvals[i].pc = "waiting" ~> approvals[i].pc = "returned"

\* The first request was approved with remember while the default asks, so
\* check now allows the tool; the second is still undecided at its last poll.
C22_Witness ==
    /\ approvals[1].pc = "returned"
    /\ approvals[1].result
    /\ perm_defaults["matlab_execute"] = "ask"
    /\ remembered = {"matlab_execute"}
    /\ check("matlab_execute", "build") = "allow"
    /\ approvals[2].pc = "waiting"
    /\ approvals[2].approved = "none"
    /\ approvals[2].polls = APPROVAL_POLLS

\* C23: get_allowed_tools(agent, candidates) returns exactly the candidates that
\* resolve to ALLOW for the agent, in the order given, for every candidate list
\* including the empty one; it never contains a tool the caller did not pass.
C23_AllowedToolsFiltersCandidates ==
    \A a \in CheckAgents, c \in CandidateLists :
        Permission_get_allowed_tools(a, c) =
            SelectSeq(c, LAMBDA t : check(t, a) = "allow")

\* ------------------------------------------- agent registry claims
\* C24: routing precedence is command, then mention, then default. For any
\* message that starts, whatever the case, with a registered command prefix,
\* route selects that command's agent with kind command and the cleaned
\* message is the message with the prefix removed and trimmed, even when the
\* message also holds a mention of another agent. Stated for the messages
\* whose first word is the registered command itself, where one prefix being
\* the start of another leaves no doubt which command is meant.
C24_CommandPrefixWins ==
    \A message \in Messages, i \in DOMAIN reg_commands :
        LET msg == strip(message)
            prefix == Spelling[reg_commands[i].command]
            word == SubSeq(msg, 1, RunLength(msg, WordChars \cup {"/", "@"}))
        IN  lower(word) = lower(prefix) =>
                /\ route(message).kind = "command"
                /\ route(message).agent = get(reg_commands[i].name)
                /\ route(message).cleaned = strip(SubSeq(msg, Len(prefix) + 1, Len(msg)))

\* C25: routing never fails. On a registry with no agents route returns, for
\* every message including the empty one, a result of kind fallback carrying
\* a synthesized agent named general.
C25_EmptyRegistryFallsBack ==
    reg_agents = <<>> =>
        \A message \in Messages :
            /\ route(message).kind = "fallback"
            /\ route(message).agent = Definition("general", "subagent", "", NoPermissions)
            /\ route(message).cleaned = strip(message)

\* route("") returned on a registry nothing was registered in.
C25_Witness ==
    /\ reg_agents = <<>>
    /\ reg_result.op = "route"
    /\ reg_result.message = <<>>
    /\ reg_result.kind = "fallback"
    /\ reg_result.agent.name = "general"

\* C26: whenever at least one agent is registered and the message matches no
\* command prefix and no mention of an existing agent, route returns kind
\* default, never fallback, and selects the current primary agent, which is a
\* registered agent flagged primary; fallback is produced only when no agents
\* are registered at all.
C26_DefaultIsRegisteredPrimary ==
    \A message \in Messages :
        /\ route(message).kind = "fallback" => reg_agents = <<>>
        /\ /\ reg_agents /= <<>>
           /\ CommandRoute(strip(message)) = NoResult
           /\ MentionRoute(strip(message)) = NoResult
           => /\ route(message).kind = "default"
              /\ route(message).agent.name = current_primary
              /\ \E i \in DOMAIN reg_agents : reg_agents[i] = route(message).agent
              /\ is_primary(route(message).agent)

\* C27: when no command prefix matches and the message starts with '@' and a
\* name of word characters, route selects the registered agent of that name
\* with kind mention, the mention stripped and the rest trimmed; if no agent
\* has that name, the default rule routes the message with the mention left
\* in the cleaned message.
C27_MentionRouting ==
    \A message \in Messages :
        LET msg == strip(message)
            n == IF msg /= <<>> /\ Head(msg) = "@" THEN RunLength(Tail(msg), WordChars)
                 ELSE 0
            name == SubSeq(msg, 2, n + 1)
            named == {i \in DOMAIN reg_agents : Spelling[reg_agents[i].name] = name}
        IN  CommandRoute(msg) = NoResult /\ n >= 1 =>
                IF named /= {}
                THEN /\ route(message).kind = "mention"
                     /\ \A i \in named : route(message).agent = reg_agents[i]
                     /\ route(message).cleaned = strip(SubSeq(msg, n + 2, Len(msg)))
                ELSE /\ route(message).kind \in {"default", "fallback"}
                     /\ route(message).kind = "default" <=> get(current_primary) /= NoDefinition
                     /\ route(message).cleaned = msg

\* route("@git show log") returned git and "show log" as a mention.
C27_Witness ==
    /\ reg_result.op = "route"
    /\ reg_result.message = <<"@", "g", "i", "t", " ", "s", "h", "o", "w", " ", "l", "o", "g">>
    /\ reg_result.kind = "mention"
    /\ reg_result.agent.name = "git"
    /\ reg_result.cleaned = <<"s", "h", "o", "w", " ", "l", "o", "g">>

\* C28: switch(name) returns true exactly when name is a registered agent
\* flagged primary; on success the current-primary pointer and Permission's
\* current agent are name, so a check that omits the agent resolves as a check
\* for name; on failure both are left unchanged.
C28_SwitchOnlyToPrimary ==
    /\ [](reg_result.op = "switch" =>
            /\ reg_result.ok <=>
                  \E i \in DOMAIN reg_agents :
                      reg_agents[i].name = reg_result.name /\ reg_agents[i].mode = "primary"
            /\ reg_result.ok =>
                  /\ current_primary = reg_result.name
                  /\ perm_current_agent = reg_result.name
                  /\ \A t \in CheckTools : check(t, "") = check(t, reg_result.name))
    /\ [][reg_result'.op = "switch" /\ ~reg_result'.ok =>
            UNCHANGED <<current_primary, perm_current_agent>>]_vars

\* switch("plan") succeeded and a check without agent meets plan's override.
C28_Witness ==
    /\ reg_result.op = "switch"
    /\ reg_result.ok
    /\ reg_result.name = "plan"
    /\ current_primary = "plan"
    /\ perm_overrides["plan"]["matlab_execute"] = "deny"
    /\ check("matlab_execute", "") = "deny"

\* C29: toggle_primary cycles among exactly the primary agents in registration
\* order: with two or more primaries a call moves the current primary to the
\* next primary, wrapping around, so as many calls as there are primaries
\* return to the start and a sub-agent is never selected; with fewer than two
\* primaries it changes nothing and returns the unchanged current agent.
C29_ToggleCyclesPrimaries ==
    [][reg_result'.op = "toggle" =>
         LET primary_names == [i \in DOMAIN list_primary |-> list_primary[i].name]
             n == Len(primary_names)
         IN  IF n >= 2
             THEN /\ \E i \in 1..n :
                        /\ primary_names[i] = current_primary
                        /\ current_primary' = primary_names[(i % n) + 1]
                  /\ reg_result'.name = current_primary'
             ELSE /\ UNCHANGED <<current_primary, perm_current_agent>>
                  /\ get(current_primary) /= NoDefinition =>
                        reg_result'.name = current_primary]_vars

\* C30: registration is idempotent per name and the last registration wins.
\* After registering or loading a definition under a name, get(name) returns
\* that definition and the name has one entry, so the number of agents did
\* not grow if the name was registered before; registering the same
\* definition, or loading the same directory, a second time changes nothing.
C30_RegistrationLastWins ==
    /\ [](\A d \in AgentDefinitions :
            LET reg == [agents |-> reg_agents, commands |-> reg_commands]
                once == Loaded(reg, <<d>>)
                grown == IF get(d.name) = NoDefinition THEN 1 ELSE 0
            IN  /\ AgentsGet(once.agents, d.name) = d
                /\ Len(once.agents) = Len(reg_agents) + grown
                /\ Loaded(once, <<d>>) = once
                /\ Overridden(Overridden(perm_overrides, d), d) = Overridden(perm_overrides, d))
    /\ [](\A dir \in AgentDirs :
            LET once == Loaded([agents |-> reg_agents, commands |-> reg_commands], dir)
            IN  /\ Loaded(once, dir) = once
                /\ AgentsGet(once.agents, dir[Len(dir)].name) = dir[Len(dir)])
    /\ [](\A i, j \in DOMAIN reg_agents : reg_agents[i].name = reg_agents[j].name => i = j)
    /\ [][reg_result'.op = "register" =>
            /\ AgentsGet(reg_agents', reg_result'.name) = reg_result'.agent
            /\ get(reg_result'.name) /= NoDefinition => Len(reg_agents') = Len(reg_agents)]_vars

\* build was switched to as a primary and then registered again as a
\* sub-agent: it keeps its place before plan and get returns the sub-agent.
C30_Witness ==
    /\ reg_result.op = "register"
    /\ reg_result.agent = Definition("build", "subagent", "", NoPermissions)
    /\ perm_current_agent = "build"
    /\ Len(reg_agents) = 2
    /\ reg_agents[2].name = "plan"
    /\ get("build") = Definition("build", "subagent", "", NoPermissions)

\* C40: route is read-only. A call leaves the registered agents, the command
\* map, the current-primary pointer and Permission's current agent unchanged,
\* so a message routed to a sub-agent does not change what a later unmatched
\* message defaults to, and routing the message again gives the same result.
C40_RouteReadOnly ==
    /\ [][reg_result'.op = "route" =>
            UNCHANGED <<reg_agents, reg_commands, current_primary, perm_current_agent,
                        perm_overrides>>]_vars
    /\ [](reg_result.op = "route" => route(reg_result.message) = reg_result)

\* A command routed a message to the sub-agent git while plan is the current
\* primary, and an unmatched message still defaults to plan.
C40_Witness ==
    /\ reg_result.op = "route"
    /\ reg_result.kind = "command"
    /\ reg_result.agent.name = "git"
    /\ current_primary = "plan"
    /\ perm_current_agent = "plan"
    /\ route(<<" ", "d", "e", "p", "l", "o", "y", " ">>).agent.name = "plan"

\* C39: an agent's permission overrides are in force however the agent
\* entered the registry: for every agent added by register or by load and
\* every (tool, state) of its permissions, check(tool, agent.name) resolves
\* from that override.
C39_OverridesInForceHoweverAdded ==
    \A i \in DOMAIN reg_agents, t \in ToolNames :
        reg_agents[i].permissions[t] /= "unset" =>
            /\ HasOverride(reg_agents[i].name, t)
            /\ check(t, reg_agents[i].name) = reg_agents[i].permissions[t]

\* C36: command prefixes are unique across registered agents after any
\* sequence of register and load: each prefix maps to one agent, every
\* registered agent with a command is the agent get_by_command returns for
\* it, and a prefix that belonged only to a replaced definition is no longer
\* routable, so every command that routes is the command of the definition
\* it routes to.
C36_CommandsFollowDefinitions ==
    /\ \A i, j \in DOMAIN reg_commands :
           reg_commands[i].command = reg_commands[j].command => i = j
    /\ \A i \in DOMAIN reg_agents :
           reg_agents[i].command /= "" =>
               get_by_command(reg_agents[i].command) = reg_agents[i]
    /\ \A message \in Messages, i \in DOMAIN reg_commands :
           /\ route(message).kind = "command"
           /\ startswith(lower(strip(message)), lower(Spelling[reg_commands[i].command]))
           /\ route(message).agent = get(reg_commands[i].name)
           => \E j \in DOMAIN reg_agents :
                  /\ reg_agents[j] = route(message).agent
                  /\ reg_agents[j].command /= ""
                  /\ startswith(lower(strip(message)), lower(Spelling[reg_agents[j].command]))

\* ------------------------------------- session and bridge claims, continued
\* C35: if start(agent) fails, with a configuration error or because opening
\* the backend session raises, the session never opens: is_running is false
\* after the failed call, and a configuration error, which builds no client,
\* leaves the current agent and Permission's current agent unchanged. Stated
\* for starts of a processor that is not running.
C35_FailedStartLeavesStopped ==
    [][/\ sp_client = 0
       /\ \E a \in SpAgentNames : sp_start(a)
       /\ sp_raised'
       => /\ ~is_running'
          /\ UNCHANGED backend => UNCHANGED <<sp_current_agent, perm_current_agent>>]_vars

\* C32: compaction is serialized with ordinary queries. While a compaction
\* cycle (summary query, stop, restart) of one request is in progress on a
\* session, no ordinary query of another request runs on that session; in
\* particular the query of a request submitted as soon as the previous one was
\* seen complete is not interleaved with that request's compaction.
C32_CompactionSerialized ==
    \A r1, r2 \in Requests :
        r1 /= r2 /\ InCompaction(r1) =>
            ~(tasks[r2].pc = "query" /\ tasks[r2].ag = tasks[r1].ag)

\* C38: the bridge's session-running flag agrees with the bound agent's
\* session wherever a unit of work begins: it is true exactly when the agent's
\* backend client is open, so a request never queries an agent whose client
\* is closed and never opens a second client over an open one. Stated for a
\* request about to begin while no other request's coroutine is live.
C38_RunningFlagMatchesClient ==
    \A r \in Requests :
        /\ tasks[r].pc = "sched"
        /\ \A other \in Requests : ~Live(other)
        => (agent_running <=> agents[agent].client = "open")

\* C34: no failure inside a compaction cycle, in the summary query, the stop
\* or the restart, is fatal to the conversation: no exception escapes, so the
\* stored result stays, and the next request for the same agent is served by
\* a running session, restarted if needed: when the cycle of the bound agent
\* ends, its client is open or the bridge knows that it must start it.
C34_CompactionFailureNotFatal ==
    [][\A r \in Requests :
          /\ InCompaction(r)
          /\ ~InCompaction(r)'
          /\ ~CancelPending(r)
          /\ agent = tasks[r].ag
          => /\ UNCHANGED <<async_response, async_complete>>
             /\ agents'[agent].client = "open" \/ ~agent_running']_vars

\* C37: requests are isolated from each other. Once a later request has
\* reset the pending operation, the work of an earlier request writes nothing
\* into it: no chunk or content, no result and no completion mark come from
\* the earlier request's coroutine, its handlers or its CLI callbacks.
C37_RequestsIsolated ==
    [][\A r \in Requests :
          r < nsubmit /\ (tasks'[r] /= tasks[r] \/ cli'[r] /= cli[r]) =>
              UNCHANGED <<async_response, async_complete, async_chunks, async_content>>]_vars


\* C33: the turn counter is incremented by one only for a request whose query
\* ran to the end of its stream, after that end; a request whose stream was cut
\* short by an interrupt (the streaming loop left by its break) is not counted.
C33_TurnCountsFullQueries ==
    [][\A r \in Requests :
          tasks[r].pc = "broke" =>
              agents'[tasks[r].ag].turns = agents[tasks[r].ag].turns]_vars


\* C31: every read and every write of a field of the Pending Async Operation
\* (chunk buffer, content buffer, result, completion flag, interrupt flag, task
\* handle), by the caller's thread or the background context, is performed by
\* a thread that holds the async lock.
C31_AccessesHoldLock == accessed.field /= "none" => accessed.locked

====
